---- MODULE Spec2Model ----
(***************************************************************************)
(* Model of the resume-builder pipeline of job-application-automation:     *)
(*   app/services/resume_builder/analyzer.py   (JobAnalyzer)               *)
(*   app/services/resume_builder/matcher.py    (ProfileMatcher)            *)
(*   app/services/resume_builder/generator.py  (ResumeGenerator)           *)
(*   app/services/llm/{openai,ollama,provider_simple}.py (providers)       *)
(*                                                                         *)
(* Python values are represented as follows.                               *)
(*   - str            : a TLA+ string (Len, SubSeq and \o act on it)       *)
(*   - Optional[T]    : <<>> for None, <<v>> for a value v                 *)
(*   - float          : an exact rational <<n, d>>, d > 0, in lowest terms *)
(*                      (binary rounding error of floats is not modelled)  *)
(*   - list           : a sequence                                         *)
(*   - dict / model   : a record                                           *)
(***************************************************************************)
EXTENDS Integers, Sequences, FiniteSets, TLC

VARIABLES
    profile,    \* UserProfile handed to the pipeline
    job,        \* JobPost entity (job.analysis is the cached profile)
    llm,        \* behaviour of the generative backend at each call site
    match,      \* outcome of ProfileMatcher.match_profile_to_job
    content,    \* outcome of ResumeGenerator._generate_resume_content
    pc,         \* stage of the run
    clock,      \* number of datetime.utcnow() readings taken so far
    fit,        \* inputs and results of _determine_fit_category
    gs          \* state of one LLMProvider.generate_structured invocation

vars == <<profile, job, llm, match, content, pc, clock, fit, gs>>

-----------------------------------------------------------------------------
(* Optional values                                                         *)

NoneVal == <<>>

Some(v) == <<v>>

IsNone(o) == o = <<>>

Val(o) == o[1]

\* Python truthiness of an Optional[int]: None and 0 are falsy.
TruthyInt(o) == o # <<>> /\ o[1] # 0

\* Python truthiness of an Optional[str]: None and "" are falsy.
TruthyStr(o) == o # <<>> /\ o[1] # ""

-----------------------------------------------------------------------------
(* Exact rationals standing for Python floats                              *)

Abs(x) == IF x < 0 THEN -x ELSE x

MinInt(a, b) == IF a <= b THEN a ELSE b

MaxInt(a, b) == IF a >= b THEN a ELSE b

RECURSIVE GCD(_, _)
GCD(a, b) == IF b = 0 THEN a ELSE GCD(b, a % b)

Rat(n, d) ==
    LET s == IF d < 0 THEN -1 ELSE 1
        g == GCD(Abs(n), Abs(d))
    IN  <<(s * n) \div g, (s * d) \div g>>

RInt(k) == <<k, 1>>

RAdd(a, b) == Rat(a[1] * b[2] + b[1] * a[2], a[2] * b[2])

RSub(a, b) == Rat(a[1] * b[2] - b[1] * a[2], a[2] * b[2])

RMul(a, b) == Rat(a[1] * b[1], a[2] * b[2])

RDiv(a, b) == Rat(a[1] * b[2], a[2] * b[1])

RLe(a, b) == a[1] * b[2] <= b[1] * a[2]

RLt(a, b) == a[1] * b[2] < b[1] * a[2]

RGe(a, b) == RLe(b, a)

RGt(a, b) == RLt(b, a)

RMin(a, b) == IF RLe(a, b) THEN a ELSE b

RMax(a, b) == IF RGe(a, b) THEN a ELSE b

\* Python round(x, digits) for digits = 0, 1, 2 (scale = 10^digits): the
\* nearest multiple of 1/scale, a tie going to the even multiple.
RoundTo(x, scale) ==
    LET num == x[1] * scale
        q   == num \div x[2]
        r   == num % x[2]
        k   == IF 2 * r < x[2] THEN q
               ELSE IF 2 * r > x[2] THEN q + 1
               ELSE IF q % 2 = 0 THEN q ELSE q + 1
    IN  Rat(k, scale)

Round2(x) == RoundTo(x, 100)

Round1(x) == RoundTo(x, 10)

-----------------------------------------------------------------------------
(* Python str operations                                                   *)

UpperAlphabet == "ABCDEFGHIJKLMNOPQRSTUVWXYZ"

LowerAlphabet == "abcdefghijklmnopqrstuvwxyz"

Digits == "0123456789"

Char(s, i) == SubSeq(s, i, i)

\* Index of the first occurrence of needle in hay at or after position from
\* (1-based), 0 when there is none: str.find shifted by one.
Find(hay, needle, from) ==
    LET n == Len(needle)
        starts == {i \in from..(Len(hay) - n + 1) : SubSeq(hay, i, i + n - 1) = needle}
    IN  IF starts = {} THEN 0
        ELSE CHOOSE i \in starts : \A j \in starts : i <= j

\* Index of the last occurrence, 0 when there is none: str.rfind shifted by one.
RFind(hay, needle) ==
    LET n == Len(needle)
        starts == {i \in 1..(Len(hay) - n + 1) : SubSeq(hay, i, i + n - 1) = needle}
    IN  IF starts = {} THEN 0
        ELSE CHOOSE i \in starts : \A j \in starts : i >= j

\* needle in hay
Contains(hay, needle) ==
    LET n == Len(needle)
    IN  \E i \in 1..(Len(hay) - n + 1) : SubSeq(hay, i, i + n - 1) = needle

\* str.lower() and str.upper() of one character
LowerMap ==
    [c \in {Char(UpperAlphabet, i) : i \in 1..26} |->
        Char(LowerAlphabet, Find(UpperAlphabet, c, 1))]

UpperMap ==
    [c \in {Char(LowerAlphabet, i) : i \in 1..26} |->
        Char(UpperAlphabet, Find(LowerAlphabet, c, 1))]

LowerChar(c) == IF c \in DOMAIN LowerMap THEN LowerMap[c] ELSE c

UpperChar(c) == IF c \in DOMAIN UpperMap THEN UpperMap[c] ELSE c

RECURSIVE Lower(_)
Lower(s) ==
    IF s = "" THEN ""
    ELSE LowerChar(Char(s, 1)) \o Lower(SubSeq(s, 2, Len(s)))

IsSpace(c) == c \in {" ", "\n", "\t"}

IsDigit(c) == Len(c) = 1 /\ Contains(Digits, c)

\* \w of the re module for the ASCII text used here
IsWordChar(c) ==
    c \in DOMAIN LowerMap \/ c \in DOMAIN UpperMap \/ IsDigit(c) \/ c = "_"

\* str.split(): the whitespace-separated words of s, in order
RECURSIVE SplitFrom(_, _, _)
SplitFrom(s, i, cur) ==
    IF i > Len(s) THEN (IF cur = "" THEN <<>> ELSE <<cur>>)
    ELSE IF IsSpace(Char(s, i))
         THEN (IF cur = "" THEN <<>> ELSE <<cur>>) \o SplitFrom(s, i + 1, "")
         ELSE SplitFrom(s, i + 1, cur \o Char(s, i))

Split(s) == SplitFrom(s, 1, "")

\* set(s.split())
WordSet(s) == {Split(s)[i] : i \in 1..Len(Split(s))}

\* int(s) for a non-empty string of digits
RECURSIVE ParseInt(_)
ParseInt(s) ==
    IF s = "" THEN 0
    ELSE 10 * ParseInt(SubSeq(s, 1, Len(s) - 1)) + (Find(Digits, Char(s, Len(s)), 1) - 1)

AllDigits(s) == s # "" /\ \A i \in 1..Len(s) : IsDigit(Char(s, i))

-----------------------------------------------------------------------------
(* Sequences                                                               *)

\* The lists of at most n distinct elements of S, in every order
RECURSIVE SeqsUpTo(_, _)
SeqsUpTo(S, n) ==
    IF n = 0 THEN {<<>>}
    ELSE LET shorter == SeqsUpTo(S, n - 1)
         IN  shorter \cup {Append(s, x) : s \in {t \in shorter : Len(t) = n - 1}, x \in S}

Distinct(s) == \A i, j \in 1..Len(s) : i # j => s[i] # s[j]

DistinctSeqsUpTo(S, n) == {s \in SeqsUpTo(S, n) : Distinct(s)}

Range(s) == {s[i] : i \in 1..Len(s)}

RECURSIVE SumRat(_, _)
SumRat(s, i) == IF i > Len(s) THEN RInt(0) ELSE RAdd(s[i], SumRat(s, i + 1))

\* s[:n]
Take(s, n) == SubSeq(s, 1, MinInt(n, Len(s)))

-----------------------------------------------------------------------------
(* Outcome of a call: a returned value or a raised exception               *)

Ok(v) == [ok |-> TRUE, value |-> v]

Raise(e) == [ok |-> FALSE, error |-> e]

-----------------------------------------------------------------------------
(* datetime                                                                *)

\* datetime.now() of the run (matcher.py:184, 406, 412)
Now == [year |-> 2026, month |-> 11, day |-> 3]

\* datetime.strptime(s, "%Y-%m"): four digits, a dash, a month 1..12 written
\* with one or two digits; None stands for the ValueError it raises otherwise.
Strptime(s) ==
    LET y == SubSeq(s, 1, MinInt(4, Len(s)))
        m == SubSeq(s, 6, Len(s))
    IN  IF /\ Len(s) \in {6, 7}
           /\ Char(s, 5) = "-"
           /\ AllDigits(y) /\ ParseInt(y) >= 1
           /\ AllDigits(m) /\ ParseInt(m) \in 1..12
        THEN Some([year |-> ParseInt(y), month |-> ParseInt(m), day |-> 1])
        ELSE NoneVal

IsLeap(y) == y % 4 = 0 /\ (y % 100 # 0 \/ y % 400 = 0)

DaysBeforeYear(y) == (y - 1) * 365 + (y - 1) \div 4 - (y - 1) \div 100 + (y - 1) \div 400

DaysInMonth(y, m) ==
    IF m = 2 THEN (IF IsLeap(y) THEN 29 ELSE 28)
    ELSE IF m \in {4, 6, 9, 11} THEN 30 ELSE 31

RECURSIVE DaysBeforeMonth(_, _)
DaysBeforeMonth(y, m) ==
    IF m = 1 THEN 0 ELSE DaysBeforeMonth(y, m - 1) + DaysInMonth(y, m - 1)

\* date.toordinal()
ToOrdinal(d) == DaysBeforeYear(d.year) + DaysBeforeMonth(d.year, d.month) + d.day

\* (a - b).days for a = now (some time of day) or a month start, b a month start
DaysBetween(a, b) == ToOrdinal(a) - ToOrdinal(b)

\* (end.year - start.year) + (end.month - start.month) / 12
DurationYears(start, end) ==
    RAdd(RInt(end.year - start.year), Rat(end.month - start.month, 12))

\* exp.end_date parsed, or datetime.now() for an open-ended entry
EndDate(exp) == IF TruthyStr(exp.end_date) THEN Strptime(Val(exp.end_date)) ELSE Some(Now)

DatesParse(exp) == ~IsNone(Strptime(exp.start_date)) /\ ~IsNone(EndDate(exp))

-----------------------------------------------------------------------------
(* ProfileMatcher._match_skills                                            *)

\* job_skill.get("relevance", 5)
Relevance(job_skill) == IF IsNone(job_skill.relevance) THEN 5 ELSE Val(job_skill.relevance)

\* Name comparison of one job skill with one profile skill (both lowercased):
\* exact -> 1.0, containment -> length ratio, common words -> share of the job
\* skill's words, else None (the loop's "continue").
NameMatchScore(job_skill_name, profile_skill_name) ==
    IF job_skill_name = profile_skill_name THEN Some(RInt(1))
    ELSE IF Contains(profile_skill_name, job_skill_name)
            \/ Contains(job_skill_name, profile_skill_name)
    THEN Some(Rat(MinInt(Len(job_skill_name), Len(profile_skill_name)),
                  MaxInt(Len(job_skill_name), Len(profile_skill_name))))
    ELSE LET job_skill_words == WordSet(job_skill_name)
             profile_skill_words == WordSet(profile_skill_name)
             common_words == job_skill_words \cap profile_skill_words
         IN  IF common_words # {}
             THEN Some(Rat(Cardinality(common_words), Cardinality(job_skill_words)))
             ELSE NoneVal

\* Blend of the name score with the years of experience
BlendYears(match_score, years_required, years) ==
    IF TruthyInt(years_required) /\ TruthyInt(years)
    THEN LET experience_factor ==
                 IF Val(years) >= Val(years_required) THEN RInt(1)
                 ELSE Rat(Val(years), Val(years_required))
         IN  RAdd(RMul(match_score, Rat(7, 10)), RMul(experience_factor, Rat(3, 10)))
    ELSE match_score

\* Final score of one candidate skill for one requirement, None when skipped
CandidateScore(job_skill, profile_skill) ==
    LET name_score == NameMatchScore(Lower(job_skill.name), Lower(profile_skill.name))
    IN  IF IsNone(name_score) THEN NoneVal
        ELSE Some(BlendYears(Val(name_score), job_skill.years_required, profile_skill.years))

\* The inner loop: best_match / best_match_score after profile_skills[i..]
RECURSIVE BestMatch(_, _, _, _)
BestMatch(job_skill, profile_skills, i, best) ==
    IF i > Len(profile_skills) THEN best
    ELSE LET sc == CandidateScore(job_skill, profile_skills[i])
         IN  IF ~IsNone(sc) /\ RGt(Val(sc), best.best_match_score)
             THEN BestMatch(job_skill, profile_skills, i + 1,
                            [best_match |-> Some(profile_skills[i]), best_match_score |-> Val(sc)])
             ELSE BestMatch(job_skill, profile_skills, i + 1, best)

\* A lower threshold than the code's
MatchThreshold_low == Rat(4, 10)

\* The threshold for recording a match
MatchThreshold == Rat(6, 10)

Accepted(best) == ~IsNone(best.best_match) /\ RGe(best.best_match_score, MatchThreshold)

MatchedSkillEntry(job_skill, best) ==
    [job_skill        |-> job_skill.name,
     skill_name       |-> Val(best.best_match).name,
     category         |-> job_skill.category,
     match_score      |-> Round2(best.best_match_score),
     years_experience |-> Val(best.best_match).years,
     years_required   |-> job_skill.years_required,
     relevance_score  |-> Round2(RMul(best.best_match_score, Rat(Relevance(job_skill), 10)))]

\* The outer loop: matched_skills in the order of job_skills
RECURSIVE MatchedSkillsFrom(_, _, _)
MatchedSkillsFrom(profile_skills, job_skills, i) ==
    IF i > Len(job_skills) THEN <<>>
    ELSE LET best == BestMatch(job_skills[i], profile_skills, 1,
                               [best_match |-> NoneVal, best_match_score |-> RInt(0)])
             rest == MatchedSkillsFrom(profile_skills, job_skills, i + 1)
         IN  IF Accepted(best) THEN <<MatchedSkillEntry(job_skills[i], best)>> \o rest
             ELSE rest

\* sorted(xs, key=lambda x: x["relevance_score"], reverse=True): descending and
\* stable (equal keys keep their input order)
RECURSIVE InsertDesc(_, _)
InsertDesc(sorted, x) ==
    IF sorted = <<>> THEN <<x>>
    ELSE IF RGe(Head(sorted).relevance_score, x.relevance_score)
         THEN <<Head(sorted)>> \o InsertDesc(Tail(sorted), x)
         ELSE <<x>> \o sorted

RECURSIVE SortedByRelevanceDesc(_, _)
SortedByRelevanceDesc(xs, n) ==
    IF n = 0 THEN <<>> ELSE InsertDesc(SortedByRelevanceDesc(xs, n - 1), xs[n])

_match_skills(profile_skills, job_skills) ==
    LET matched_skills == MatchedSkillsFrom(profile_skills, job_skills, 1)
    IN  SortedByRelevanceDesc(matched_skills, Len(matched_skills))


-----------------------------------------------------------------------------
(* ProfileMatcher._match_experience                                        *)

\* The job skill (lowercased name) occurs in the title, the description or
\* one of the skills used
ExperienceMentions(exp, skill_name) ==
    \/ Contains(Lower(exp.title), skill_name)
    \/ (TruthyStr(exp.description) /\ Contains(Lower(Val(exp.description)), skill_name))
    \/ \E k \in 1..Len(exp.skills_used) : Contains(Lower(exp.skills_used[k]), skill_name)

RECURSIVE MentionedRelevance(_, _, _)
MentionedRelevance(exp, job_skills, i) ==
    IF i > Len(job_skills) THEN RInt(0)
    ELSE RAdd(IF ExperienceMentions(exp, Lower(job_skills[i].name))
              THEN Rat(Relevance(job_skills[i]), 10) ELSE RInt(0),
              MentionedRelevance(exp, job_skills, i + 1))

\* relevance_score of one experience, normalised to at most 1.0
ExperienceRelevance(exp, job_skills) ==
    IF job_skills # <<>>
    THEN RMin(RDiv(MentionedRelevance(exp, job_skills, 1), RInt(Len(job_skills))), RInt(1))
    ELSE Rat(1, 2)

ExperienceDuration(exp) == DurationYears(Val(Strptime(exp.start_date)), Val(EndDate(exp)))

RECURSIVE TotalYears(_, _)
TotalYears(exps, i) ==
    IF i > Len(exps) THEN RInt(0)
    ELSE RAdd(ExperienceDuration(exps[i]), TotalYears(exps, i + 1))

RECURSIVE RelevantYears(_, _, _)
RelevantYears(exps, job_skills, i) ==
    IF i > Len(exps) THEN RInt(0)
    ELSE RAdd(RMul(ExperienceDuration(exps[i]), ExperienceRelevance(exps[i], job_skills)),
              RelevantYears(exps, job_skills, i + 1))

\* experience_score from relevant_years and the job's required years
ExperienceScore(relevant_years, job_experience) ==
    IF TruthyInt(job_experience)
    THEN IF RGe(relevant_years, RInt(Val(job_experience))) THEN RInt(1)
         ELSE RDiv(relevant_years, RInt(Val(job_experience)))
    ELSE IF RGe(relevant_years, RInt(7)) THEN RInt(1)
         ELSE IF RGe(relevant_years, RInt(5)) THEN Rat(9, 10)
         ELSE IF RGe(relevant_years, RInt(3)) THEN Rat(8, 10)
         ELSE IF RGe(relevant_years, RInt(1)) THEN Rat(6, 10)
         ELSE Rat(3, 10)

_match_experience(profile_experiences, job_experience, job_skills) ==
    IF profile_experiences = <<>>
    THEN Ok([score |-> RInt(0), total_years |-> RInt(0), relevant_years |-> NoneVal,
             required_years |-> job_experience, has_sufficient_experience |-> FALSE])
    ELSE IF \E k \in 1..Len(profile_experiences) : ~DatesParse(profile_experiences[k])
    THEN Raise("ValueError")
    ELSE LET total_years == TotalYears(profile_experiences, 1)
             relevant_years == RelevantYears(profile_experiences, job_skills, 1)
             experience_score == ExperienceScore(relevant_years, job_experience)
         IN  Ok([score |-> Round2(experience_score),
                 total_years |-> Round1(total_years),
                 relevant_years |-> Some(Round1(relevant_years)),
                 required_years |-> job_experience,
                 has_sufficient_experience |->
                     RGe(relevant_years,
                         RInt(IF TruthyInt(job_experience) THEN Val(job_experience) ELSE 3))])

-----------------------------------------------------------------------------
(* ProfileMatcher._match_education                                         *)

\* UserProfile.education holds ProfileEducation models (core/models.py:93-100,
\* 130), which have no get method: the first profile_edu.get("degree", "") of
\* the loop raises AttributeError.
_match_education(profile_education, job_education) ==
    IF job_education = <<>>
    THEN Ok([score |-> Rat(8, 10), has_required_education |-> TRUE, matches |-> <<>>])
    ELSE IF profile_education = <<>>
    THEN Ok([score |-> RInt(0), has_required_education |-> FALSE, matches |-> <<>>])
    ELSE Raise("AttributeError")

-----------------------------------------------------------------------------
(* ProfileMatcher._rank_experiences                                        *)

\* skill_relevance[skill]: a dict keyed by lowercased name, so the last job
\* skill of that name decides
SkillRelevance(job_skills, skill) ==
    LET idx == {i \in 1..Len(job_skills) : Lower(job_skills[i].name) = skill}
        last == CHOOSE i \in idx : \A j \in idx : i >= j
    IN  Relevance(job_skills[last])

\* One pass over skill_names against a text. acc = [relevance_score,
\* matching_skills]; weight is 0.5, 0.3 or 0.2; once_only is the
\* "skill not in matching_skills" test, absent from the title pass.
RECURSIVE SkillPass(_, _, _, _, _, _, _)
SkillPass(skill_names, job_skills, text, weight, once_only, i, acc) ==
    IF i > Len(skill_names) THEN acc
    ELSE LET skill == skill_names[i]
             hit == /\ Contains(text, skill)
                    /\ (once_only => \A k \in 1..Len(acc.matching_skills) :
                                         acc.matching_skills[k] # skill)
             next == IF hit
                     THEN [relevance_score |->
                               RAdd(acc.relevance_score,
                                    RMul(weight, Rat(SkillRelevance(job_skills, skill), 10))),
                           matching_skills |-> Append(acc.matching_skills, skill)]
                     ELSE acc
         IN  SkillPass(skill_names, job_skills, text, weight, once_only, i + 1, next)

RECURSIVE SkillsUsedPass(_, _, _, _, _)
SkillsUsedPass(skill_names, job_skills, skills_used, k, acc) ==
    IF k > Len(skills_used) THEN acc
    ELSE SkillsUsedPass(skill_names, job_skills, skills_used, k + 1,
                        SkillPass(skill_names, job_skills, Lower(skills_used[k]),
                                  Rat(2, 10), TRUE, 1, acc))

ContainsAny(text, words) == \E w \in words : Contains(text, w)

JuniorWords == {"junior", "entry", "intern"}

LevelBoost(job_level, title_lower) ==
    IF job_level = Some("executive") /\ ContainsAny(title_lower, {"director", "head", "chief"})
    THEN Rat(15, 10)
    ELSE IF job_level = Some("senior") /\ ContainsAny(title_lower, {"senior", "lead"})
    THEN Rat(13, 10)
    ELSE IF job_level = Some("mid") /\ ~ContainsAny(title_lower, JuniorWords)
    THEN Rat(12, 10)
    ELSE IF job_level = Some("entry") /\ ContainsAny(title_lower, JuniorWords)
    THEN Rat(13, 10)
    ELSE RInt(1)

\* relevance_score and matching_skills after the passes over the title, the
\* description and the skills used
SkillPasses(exp, job_skills) ==
    LET skill_names == [i \in 1..Len(job_skills) |-> Lower(job_skills[i].name)]
        a1 == SkillPass(skill_names, job_skills, Lower(exp.title), Rat(5, 10), FALSE, 1,
                        [relevance_score |-> RInt(1), matching_skills |-> <<>>])
        a2 == IF TruthyStr(exp.description)
              THEN SkillPass(skill_names, job_skills, Lower(Val(exp.description)),
                             Rat(3, 10), TRUE, 1, a1)
              ELSE a1
    IN  SkillsUsedPass(skill_names, job_skills, exp.skills_used, 1, a2)

\* final_score = relevance_score * recency_factor * current_job_boost * level_boost
FinalScore(exp, job_skills, job_level) ==
    LET end_date == Val(EndDate(exp))
        is_current == ~TruthyStr(exp.end_date)
        years_ago == Rat(DaysBetween(Now, end_date), 365)
        recency_factor == RMax(RSub(RInt(1), RDiv(years_ago, RInt(10))), Rat(1, 2))
        current_job_boost == IF is_current THEN Rat(12, 10) ELSE RInt(1)
        level_boost == LevelBoost(job_level, Lower(exp.title))
    IN  RMul(RMul(RMul(SkillPasses(exp, job_skills).relevance_score, recency_factor),
                  current_job_boost), level_boost)

RankedExperience(exp, job_skills, job_level) ==
    [title |-> exp.title,
     company |-> exp.company,
     duration |-> Round1(ExperienceDuration(exp)),
     relevance_score |-> Round2(FinalScore(exp, job_skills, job_level)),
     matching_skills |-> SkillPasses(exp, job_skills).matching_skills,
     is_current |-> ~TruthyStr(exp.end_date)]

\* _rank_experiences without the sorted(...) of its last line
_rank_experiences_unsorted(profile_experiences, job_skills, job_level) ==
    IF profile_experiences = <<>> THEN Ok(<<>>)
    ELSE IF \E k \in 1..Len(profile_experiences) : ~DatesParse(profile_experiences[k])
    THEN Raise("ValueError")
    ELSE Ok([k \in 1..Len(profile_experiences) |->
                RankedExperience(profile_experiences[k], job_skills, job_level)])

_rank_experiences(profile_experiences, job_skills, job_level) ==
    IF profile_experiences = <<>> THEN Ok(<<>>)
    ELSE IF \E k \in 1..Len(profile_experiences) : ~DatesParse(profile_experiences[k])
    THEN Raise("ValueError")
    ELSE LET ranked_experiences ==
                 [k \in 1..Len(profile_experiences) |->
                     RankedExperience(profile_experiences[k], job_skills, job_level)]
         IN  Ok(SortedByRelevanceDesc(ranked_experiences, Len(ranked_experiences)))

-----------------------------------------------------------------------------
(* ProfileMatcher._determine_fit_category and match_profile_to_job         *)

\* Strict comparisons instead of the code's >=
_determine_fit_category_strict(overall_score) ==
    IF RGt(overall_score, RInt(85)) THEN "excellent"
    ELSE IF RGt(overall_score, RInt(70)) THEN "good"
    ELSE IF RGt(overall_score, RInt(50)) THEN "fair"
    ELSE "poor"

_determine_fit_category(overall_score) ==
    IF RGe(overall_score, RInt(85)) THEN "excellent"
    ELSE IF RGe(overall_score, RInt(70)) THEN "good"
    ELSE IF RGe(overall_score, RInt(50)) THEN "fair"
    ELSE "poor"

\* sum(match["relevance_score"] for match in skill_matches) / max(len(job_skills), 1) * 100
SkillScore(skill_matches, job_skills) ==
    RMul(RDiv(SumRat([k \in 1..Len(skill_matches) |-> skill_matches[k].relevance_score], 1),
              RInt(MaxInt(Len(job_skills), 1))),
         RInt(100))

\* Weights 0.4 / 0.4 / 0.2 instead of the code's
OverallScore_weights(skill_score, experience_score, education_score) ==
    RAdd(RAdd(RMul(skill_score, Rat(4, 10)), RMul(experience_score, Rat(4, 10))),
         RMul(education_score, Rat(2, 10)))

\* (skill_score * 0.5) + (experience_score * 0.3) + (education_score * 0.2)
OverallScore(skill_score, experience_score, education_score) ==
    RAdd(RAdd(RMul(skill_score, Rat(5, 10)), RMul(experience_score, Rat(3, 10))),
         RMul(education_score, Rat(2, 10)))

\* The job skills with no match entry whose skill_name equals the skill's name
MissingSkills(job_skills, skill_matches) ==
    LET Unmatched(skill) ==
            ~\E k \in 1..Len(skill_matches) :
                Lower(skill_matches[k].skill_name) = Lower(skill.name)
    IN  SelectSeq(job_skills, Unmatched)

\* match_profile_to_job once job.analysis is present. locals records the
\* unrounded local variables of the call next to the returned dictionary.
MatchAnalysed(p, analysis, now) ==
    LET job_skills == analysis.skills
        job_experience == analysis.experience_years
        job_education == analysis.education
        job_level == analysis.job_level
        skill_matches == _match_skills(p.skills, job_skills)
        experience_match == _match_experience(p.experiences, job_experience, job_skills)
        education_match == _match_education(p.education, job_education)
        skill_score == SkillScore(skill_matches, job_skills)
        experience_score == RMul(experience_match.value.score, RInt(100))
        education_score == RMul(education_match.value.score, RInt(100))
        overall_score == OverallScore(skill_score, experience_score, education_score)
        relevant_experiences == _rank_experiences(p.experiences, job_skills, job_level)
    IN  IF ~experience_match.ok THEN experience_match
        ELSE IF ~education_match.ok THEN education_match
        ELSE IF ~relevant_experiences.ok THEN relevant_experiences
        ELSE [ok |-> TRUE,
              value |->
                [overall_match |-> Round2(overall_score),
                 fit_category |-> _determine_fit_category(overall_score),
                 skill_match |-> [score |-> Round2(skill_score),
                                  matched_skills |-> skill_matches],
                 experience_match |-> experience_match.value,
                 education_match |-> education_match.value,
                 relevant_experiences |-> relevant_experiences.value,
                 missing_skills |-> MissingSkills(job_skills, skill_matches),
                 matched_at |-> now],
              locals |->
                [job_skills |-> job_skills,
                 skill_score |-> skill_score,
                 experience_score |-> experience_score,
                 education_score |-> education_score,
                 overall_score |-> overall_score]]


-----------------------------------------------------------------------------
(* The regular expressions of analyzer.py, all searched with re.IGNORECASE *)
(* on text without line breaks.  A pattern is a sequence of tokens:         *)
(*   [t |-> "lit", s |-> S]   one of the lowercase literals of the set S   *)
(*   [t |-> "ws*"], [t |-> "ws+"]   \s* and \s+                            *)
(*   [t |-> "alt", a |-> <<p1, p2, ..>>]   (?:p1|p2|..), each pi a         *)
(*                                         sequence of lit / ws tokens     *)
(* A position is the 1-based index of the next character to read.          *)

Lit(S) == [t |-> "lit", s |-> S]

WsStar == [t |-> "ws*"]

WsPlus == [t |-> "ws+"]

Alt(a) == [t |-> "alt", a |-> a]

\* x? for a literal x
Opt(x) == Alt(<<<<Lit({x})>>, <<>>>>)

\* The positions reachable from p by reading spaces only
SpacesFrom(text, p) ==
    {q \in p..(Len(text) + 1) : \A k \in p..(q - 1) : IsSpace(Char(text, k))}

\* The end positions of one lit / ws token started at position p
TokenEnds(tok, text, p) ==
    IF tok.t = "lit"
    THEN {p + Len(x) : x \in {y \in tok.s : /\ p + Len(y) - 1 <= Len(text)
                                            /\ SubSeq(text, p, p + Len(y) - 1) = y}}
    ELSE IF tok.t = "ws*" THEN SpacesFrom(text, p)
    ELSE SpacesFrom(text, p) \ {p}

\* The end positions of a sequence of lit / ws tokens started at any of P
RECURSIVE FlatEnds(_, _, _, _)
FlatEnds(toks, k, text, P) ==
    IF k > Len(toks) \/ P = {} THEN P
    ELSE FlatEnds(toks, k + 1, text, UNION {TokenEnds(toks[k], text, p) : p \in P})

\* The end positions of a pattern started at any of P
RECURSIVE PatternEnds(_, _, _, _)
PatternEnds(toks, k, text, P) ==
    IF k > Len(toks) \/ P = {} THEN P
    ELSE LET tok == toks[k]
             ends == IF tok.t = "alt"
                     THEN UNION {FlatEnds(tok.a[n], 1, text, P) : n \in 1..Len(tok.a)}
                     ELSE UNION {TokenEnds(tok, text, p) : p \in P}
         IN  PatternEnds(toks, k + 1, text, ends)

\* re.search(pattern, text, re.IGNORECASE) is not None
Search(toks, text) ==
    LET low == Lower(text)
    IN  \E i \in 1..(Len(low) + 1) : PatternEnds(toks, 1, low, {i}) # {}

\* The end of the longest run of digits starting at p (p itself if none)
DigitsEnd(text, p) ==
    CHOOSE q \in p..(Len(text) + 1) :
        /\ \A k \in p..(q - 1) : IsDigit(Char(text, k))
        /\ (q = Len(text) + 1 \/ ~IsDigit(Char(text, q)))

\* re.search of pre (\d+) post: int(match.group(1)) of the leftmost match,
\* None when nothing matches.  No token after the group begins with a digit,
\* so the greedy group is the whole run of digits where it starts.
SearchNumber(pre, post, text) ==
    LET low == Lower(text)
        GroupStarts(i) ==
            {p \in PatternEnds(pre, 1, low, {i}) :
                /\ DigitsEnd(low, p) > p
                /\ PatternEnds(post, 1, low, {DigitsEnd(low, p)}) # {}}
        starts == {i \in 1..(Len(low) + 1) : GroupStarts(i) # {}}
    IN  IF starts = {} THEN NoneVal
        ELSE LET i == CHOOSE x \in starts : \A y \in starts : x <= y
                 p == CHOOSE x \in GroupStarts(i) : \A y \in GroupStarts(i) : x <= y
             IN  Some(ParseInt(SubSeq(low, p, DigitsEnd(low, p) - 1)))

\* \b at position p of text: exactly one of the characters around p is a word
\* character (outside the text counts as none)
WordBoundary(text, p) ==
    LET before == p > 1 /\ IsWordChar(Char(text, p - 1))
        after  == p <= Len(text) /\ IsWordChar(Char(text, p))
    IN  before # after

\* re.search(r'\b' + pattern + r'\b', text, re.IGNORECASE) is not None, where
\* the pattern is given by its tokens
SearchWord(toks, text) ==
    LET low == Lower(text)
    IN  \E i \in 1..(Len(low) + 1) :
            /\ WordBoundary(low, i)
            /\ \E e \in PatternEnds(toks, 1, low, {i}) : WordBoundary(low, e)

\* s.split(sep) for a one-character separator
RECURSIVE SplitOn(_, _, _, _)
SplitOn(s, sep, i, cur) ==
    IF i > Len(s) THEN <<cur>>
    ELSE IF Char(s, i) = sep THEN <<cur>> \o SplitOn(s, sep, i + 1, "")
    ELSE SplitOn(s, sep, i + 1, cur \o Char(s, i))

\* s.replace(old, new) for a one-character old
RECURSIVE Replace(_, _, _)
Replace(s, old, new) ==
    IF s = "" THEN ""
    ELSE (IF Char(s, 1) = old THEN new ELSE Char(s, 1)) \o Replace(SubSeq(s, 2, Len(s)), old, new)

\* s.title(): every letter that follows a non-letter is upper case, the others lower
RECURSIVE TitleFrom(_, _, _)
TitleFrom(s, i, prev_letter) ==
    IF i > Len(s) THEN ""
    ELSE LET c == Char(s, i)
             letter == c \in DOMAIN LowerMap \/ c \in DOMAIN UpperMap
         IN  (IF prev_letter THEN LowerChar(c) ELSE UpperChar(c)) \o TitleFrom(s, i + 1, letter)

Title(s) == TitleFrom(s, 1, FALSE)

\* The tokens of a pattern that is literal text (after unescaping)
Literal(text) == <<Lit({Lower(text)})>>

\* The tokens of skill.replace('.', '\\s*'): the pieces between the dots, \s* between them
RECURSIVE JoinWs(_, _)
JoinWs(pieces, k) ==
    IF k > Len(pieces) THEN <<>>
    ELSE (IF k = 1 THEN <<>> ELSE <<WsStar>>) \o <<Lit({Lower(pieces[k])})>> \o JoinWs(pieces, k + 1)

DottedPattern(skill) == JoinWs(SplitOn(skill, ".", 1, ""), 1)

-----------------------------------------------------------------------------
(* Inputs of the matching runs                                             *)

MaxProfileSkills == 2

MaxJobSkills == 2

MaxExperiences == 2

ProfileSkill(name, years) == [name |-> name, years |-> years]

JobSkill(name, category, relevance, years_required) ==
    [name |-> name, category |-> category, relevance |-> Some(relevance),
     years_required |-> years_required]

ProfileExperience(company, title, start_date, end_date, description, achievements, skills_used) ==
    [company |-> company, title |-> title, start_date |-> start_date,
     end_date |-> end_date, description |-> description,
     achievements |-> achievements, skills_used |-> skills_used, location |-> NoneVal]

ProfileSkillPool ==
    {ProfileSkill("Python", Some(5)),
     ProfileSkill("ReactJS", NoneVal),
     ProfileSkill("Data Science", Some(1))}

JobSkillPool ==
    {JobSkill("Python", "technical", 8, Some(3)),
     JobSkill("React", "technical", 10, NoneVal),
     JobSkill("data analysis", "domain", 5, Some(2))}

ExperiencePool ==
    {ProfileExperience("Acme", "Senior Python Developer", "2018-01", Some("2021-01"),
                       Some("Built React apps"), <<"Cut load time by 40%", "Led 3 engineers">>,
                       <<"SQL">>),
     ProfileExperience("Initech", "Data Analyst", "2022-06", NoneVal,
                       NoneVal, <<"Automated weekly reporting">>, <<"Python">>),
     ProfileExperience("Globex", "Intern", "2020-01", Some("2019-01"),
                       Some(""), <<>>, <<"python", "sql">>)}

JobEducationPool ==
    {<<>>, <<[level |-> "Bachelor's", field |-> "Computer Science", required |-> TRUE]>>}

ProfileEducationPool ==
    {<<>>, <<[degree |-> "Bachelor's", field |-> "Computer Science", institution |-> "MIT"]>>}

Locations == {[city |-> Some("Leeds"), state |-> NoneVal, country |-> Some("UK")]}

Profiles ==
    [id : {"u1"},
     name : {[first |-> "Ada", last |-> "Byron"]},
     title : {"Software Developer"},
     contact : [email : {"ada@example.org"}, phone : {"555-0100"}, linkedin : {NoneVal},
                website : {NoneVal}, location : Locations],
     summary : {Some("Developer with ten years of experience.")},
     skills : DistinctSeqsUpTo(ProfileSkillPool, MaxProfileSkills),
     experiences : DistinctSeqsUpTo(ExperiencePool, MaxExperiences),
     education : ProfileEducationPool,
     certifications : {<<>>}]

Analyses ==
    [skills : DistinctSeqsUpTo(JobSkillPool, MaxJobSkills),
     experience_years : {NoneVal, Some(5)},
     education : JobEducationPool,
     job_level : {Some("senior")},
     keywords : {<<"Agile">>},
     analysis_summary : {"A senior developer role."},
     analyzed_at : {Some(0)}]

AnalysedJobs ==
    [id : {"j1"},
     title : {"Senior Software Developer"},
     company_name : {"Hooli"},
     description : {Some("Senior developer wanted.")},
     analysis : {Some(a) : a \in Analyses}]

-----------------------------------------------------------------------------
(* Matching runs: match_profile_to_job applied to an analysed job          *)

Idle == [kind |-> "idle"]

\* The skill lists are varied in full next to a fixed choice of experiences,
\* and the experience lists in full next to a fixed choice of skills; the job
\* requirements vary in full in both.
FewSkills(p) == Len(p.skills) <= 1 /\ \A k \in 1..Len(p.skills) : p.skills[k].name = "Python"

FewExperiences(p) ==
    Len(p.experiences) <= 1 /\ \A k \in 1..Len(p.experiences) : p.experiences[k].company = "Acme"

InitMatch ==
    /\ profile \in {p \in Profiles : FewSkills(p) \/ FewExperiences(p)}
    /\ job \in AnalysedJobs
    /\ llm = Idle
    /\ match = NoneVal
    /\ content = NoneVal
    /\ pc = "analysed"
    /\ clock = 1
    /\ fit = Idle
    /\ gs = Idle

MatchProfileToJob ==
    /\ pc = "analysed"
    /\ ~IsNone(job.analysis)
    /\ match' = Some(MatchAnalysed(profile, Val(job.analysis), clock))
    /\ clock' = clock + 1
    /\ pc' = "matched"
    /\ UNCHANGED <<profile, job, llm, content, fit, gs>>

NextMatch == MatchProfileToJob

SpecMatch == InitMatch /\ [][NextMatch]_vars


-----------------------------------------------------------------------------
(* Fit-category runs: _determine_fit_category applied to two scores        *)

MaxFitSteps == 40

\* Scores from -10 to 100 in steps of 2.5: the thresholds and both sides of each
FitScores == {Rat(5 * k, 2) : k \in (-4)..MaxFitSteps}

InitFit ==
    /\ profile = Idle
    /\ job = Idle
    /\ llm = Idle
    /\ match = NoneVal
    /\ content = NoneVal
    /\ pc = "fit"
    /\ clock = 1
    /\ fit \in [kind : {"scores"}, a : FitScores, b : FitScores]
    /\ gs = Idle

DetermineFitCategory ==
    /\ pc = "fit"
    /\ fit.kind = "scores"
    /\ fit' = [kind |-> "categories", a |-> fit.a, b |-> fit.b,
               fit_a |-> _determine_fit_category(fit.a),
               fit_b |-> _determine_fit_category(fit.b)]
    /\ pc' = "fitted"
    /\ UNCHANGED <<profile, job, llm, match, content, clock, gs>>

NextFit == DetermineFitCategory

SpecFit == InitFit /\ [][NextFit]_vars

-----------------------------------------------------------------------------
(* Properties of the MatchResult                                           *)

Matched == pc = "matched" /\ ~IsNone(match) /\ Val(match).ok

MatchRaised == pc = "matched" /\ ~IsNone(match) /\ ~Val(match).ok

Result == Val(match).value

JobSkills == Val(job.analysis).skills

\* The skill score recomputed from the matched list of the result
ReportedSkillScore ==
    LET ms == Result.skill_match.matched_skills
    IN  RDiv(RMul(SumRat([k \in 1..Len(ms) |-> ms[k].relevance_score], 1), RInt(100)),
             RInt(IF Len(JobSkills) = 0 THEN 1 ELSE Len(JobSkills)))

ReportedExperienceScore == RMul(Result.experience_match.score, RInt(100))

ReportedEducationScore == RMul(Result.education_match.score, RInt(100))

WeightedSum(sk, ex, ed) ==
    Rat(5 * sk[1] * ex[2] * ed[2] + 3 * ex[1] * sk[2] * ed[2] + 2 * ed[1] * sk[2] * ex[2],
        10 * sk[2] * ex[2] * ed[2])

\* C1: whenever match_profile_to_job returns, its overall score is
\* skill_score*0.5 + experience_score*0.3 + education_score*0.2 of the three
\* 0-100 sub-scores of the same result, and the reported overall_match is that
\* sum rounded to 2 decimals.
C1_OverallIsWeightedSum ==
    Matched =>
        LET sum == WeightedSum(ReportedSkillScore, ReportedExperienceScore,
                               ReportedEducationScore)
        IN  /\ Val(match).locals.overall_score = sum
            /\ Result.overall_match = Round2(sum)
            /\ Result.skill_match.score = Round2(ReportedSkillScore)

\* A returned result whose three sub-scores are positive and pairwise different
C1_Witness ==
    /\ Matched
    /\ RGt(ReportedSkillScore, RInt(0))
    /\ RGt(ReportedExperienceScore, RInt(0))
    /\ RGt(ReportedEducationScore, RInt(0))
    /\ ReportedSkillScore # ReportedExperienceScore
    /\ ReportedExperienceScore # ReportedEducationScore
    /\ ReportedSkillScore # ReportedEducationScore

InRange(x) == RGe(x, RInt(0)) /\ RLe(x, RInt(100))

\* C2: for experience dates that parse (in any order) and relevances in 1..10,
\* the skill, experience, education and overall scores of the MatchResult are
\* all within [0, 100].
C2_ScoresInRange ==
    Matched =>
        /\ InRange(Result.skill_match.score)
        /\ InRange(ReportedExperienceScore)
        /\ InRange(ReportedEducationScore)
        /\ InRange(Result.overall_match)

FitRank(c) ==
    CASE c = "poor" -> 0 [] c = "fair" -> 1 [] c = "good" -> 2 [] c = "excellent" -> 3

FitAgrees(score, category) ==
    /\ category = "excellent" <=> RGe(score, RInt(85))
    /\ category = "good" <=> (RGe(score, RInt(70)) /\ RLt(score, RInt(85)))
    /\ category = "fair" <=> (RGe(score, RInt(50)) /\ RLt(score, RInt(70)))
    /\ category = "poor" <=> RLt(score, RInt(50))

\* C3: fit_category follows the thresholds 85 / 70 / 50 exactly (excellent iff
\* score >= 85, good iff 70 <= score < 85, fair iff 50 <= score < 70, poor iff
\* score < 50), and of two scores the higher never gets the lower category.
C3_FitCategoryThresholds ==
    pc = "fitted" =>
        /\ FitAgrees(fit.a, fit.fit_a)
        /\ FitAgrees(fit.b, fit.fit_b)
        /\ RLe(fit.a, fit.b) => FitRank(fit.fit_a) <= FitRank(fit.fit_b)

\* Two scores on the thresholds 70 and 85 themselves, categorised
C3_Witness ==
    /\ pc = "fitted"
    /\ fit.a = RInt(70) /\ fit.fit_a = "good"
    /\ fit.b = RInt(85) /\ fit.fit_b = "excellent"

\* An accepted match is recorded for requirement i of the job
HasMatch(i) ==
    \E k \in 1..Len(Result.skill_match.matched_skills) :
        Result.skill_match.matched_skills[k].job_skill = JobSkills[i].name

IsMissing(i) ==
    \E k \in 1..Len(Result.missing_skills) : Result.missing_skills[k] = JobSkills[i]

\* C4: the required skills are partitioned into matched and missing: a required
\* skill is in missing_skills iff no accepted match was recorded for it.
C4_MatchedMissingPartition ==
    Matched => \A i \in 1..Len(JobSkills) : IsMissing(i) <=> ~HasMatch(i)

\* The best final score any candidate skill reaches for requirement i, 0 if none
BestFinalScore(i) ==
    LET scores == {Val(CandidateScore(JobSkills[i], profile.skills[k])) :
                     k \in {n \in 1..Len(profile.skills) :
                              ~IsNone(CandidateScore(JobSkills[i], profile.skills[n]))}}
    IN  IF scores = {} THEN RInt(0)
        ELSE CHOOSE x \in scores : \A y \in scores : RGe(x, y)

MatchesFor(i) ==
    {k \in 1..Len(Result.skill_match.matched_skills) :
        Result.skill_match.matched_skills[k].job_skill = JobSkills[i].name}

\* C5: no matched-skills entry has a final score below 0.6; a requirement gets
\* an entry only if its best candidate's final score is >= 0.6, and then
\* exactly one.
C5_AcceptedAtLeastThreshold ==
    Matched =>
        /\ \A k \in 1..Len(Result.skill_match.matched_skills) :
              RGe(Result.skill_match.matched_skills[k].match_score, Rat(6, 10))
        /\ \A i \in 1..Len(JobSkills) :
              /\ Cardinality(MatchesFor(i)) <= 1
              /\ MatchesFor(i) # {} => RGe(BestFinalScore(i), Rat(6, 10))
              /\ \A k \in MatchesFor(i) :
                    Result.skill_match.matched_skills[k].match_score
                        = Round2(BestFinalScore(i))

\* One requirement recorded as matched and another whose best candidate scored
\* above 0 but below 0.6 and was not recorded
C5_Witness ==
    /\ Matched
    /\ \E i, j \in 1..Len(JobSkills) :
          /\ MatchesFor(i) # {}
          /\ MatchesFor(j) = {}
          /\ RGt(BestFinalScore(j), RInt(0))
          /\ RLt(BestFinalScore(j), Rat(6, 10))

-----------------------------------------------------------------------------
(* JobAnalyzer: the rule-based extraction of analyzer.py                   *)

\* dict.get(key, default) on a dict modelled as a record
Get(d, key, default) == IF key \in DOMAIN d THEN d[key] ELSE default

\* The text a regex-escaped literal matches: the backslashes removed
Unescape(pattern) == Replace(pattern, "\\", "")

pm_skills_patterns ==
    <<"Project Management", "Program Management", "Agile", "Scrum", "Kanban",
      "JIRA", "Confluence", "MS Project", "Gantt", "Stakeholder Management",
      "Risk Management", "Budget Management", "Resource Planning", "KPIs",
      "Metrics", "Reporting", "Dashboards", "PowerPoint", "Presentation",
      "Cross-functional", "Leadership", "Team Leadership">>

supply_chain_skills ==
    <<"Supply Chain", "Logistics", "Inventory Management", "Procurement",
      "Vendor Management", "ERP", "SAP", "Warehouse Management",
      "Distribution", "Forecasting", "Demand Planning", "S&OP",
      "Lean", "Six Sigma", "Continuous Improvement", "Process Improvement",
      "KPIs", "Metrics", "Data Analysis", "Power BI", "Tableau">>

tech_skills_patterns ==
    <<"Python", "Java", "JavaScript", "React", "Node\\.js", "SQL", "AWS",
      "Docker", "Kubernetes", "Git", "C\\+\\+", "C#", "Azure", "GCP",
      "HTML", "CSS", "TypeScript", "MongoDB", "PostgreSQL", "Jenkins",
      "CI/CD", "REST API", "GraphQL", "Machine Learning", "TensorFlow",
      "PyTorch", "Data Science", "Agile", "Scrum", "DevOps",
      "Python", "SQL", "Excel", "Power BI", "Tableau", "Data Analysis",
      "Microsoft Office", "SharePoint", "SAP", "Oracle", "Databases",
      "ERP Systems", "Reporting", "Analytics", "Visualization", "Dashboards">>

soft_skills_patterns ==
    <<"teamwork", "communication", "leadership", "problem.solving",
      "critical.thinking", "collaboration", "adaptability", "time.management",
      "creativity", "attention.to.detail", "project.management",
      "Communication", "Leadership", "Teamwork", "Problem.Solving",
      "Critical.Thinking", "Collaboration", "Adaptability", "Time.Management",
      "Creativity", "Attention.to.Detail", "Presentation", "Negotiation",
      "Conflict.Resolution", "Decision.Making", "Strategic.Thinking">>

\* One loop over a list of literal skill patterns: the entries appended, in order
LiteralSkillHits(patterns, category, relevance, description) ==
    LET hits == SelectSeq(patterns, LAMBDA skill : SearchWord(Literal(Unescape(skill)), description))
    IN  [k \in 1..Len(hits) |-> JobSkill(hits[k], category, relevance, NoneVal)]

\* The loop over the soft skill patterns, whose dots stand for optional whitespace
SoftSkillHits(description) ==
    LET hits == SelectSeq(soft_skills_patterns, LAMBDA skill : SearchWord(DottedPattern(skill), description))
    IN  [k \in 1..Len(hits) |-> JobSkill(Replace(hits[k], ".", " "), "soft", 6, NoneVal)]

\* The dict unique_skills after the entries results[k..]: acc lists its values
\* in insertion order; a later entry replaces an earlier one of the same
\* lowercased name only if its relevance is higher
RECURSIVE UniqueSkills(_, _, _)
UniqueSkills(results, k, acc) ==
    IF k > Len(results) THEN acc
    ELSE LET skill == results[k]
             same == {j \in 1..Len(acc) : Lower(acc[j].name) = Lower(skill.name)}
         IN  IF same = {} THEN UniqueSkills(results, k + 1, Append(acc, skill))
             ELSE LET j == CHOOSE x \in same : TRUE
                  IN  IF Val(skill.relevance) > Val(acc[j].relevance)
                      THEN UniqueSkills(results, k + 1, [acc EXCEPT ![j] = skill])
                      ELSE UniqueSkills(results, k + 1, acc)

_rule_based_skill_extraction(description) ==
    LET results == LiteralSkillHits(pm_skills_patterns, "domain", 8, description)
                   \o LiteralSkillHits(supply_chain_skills, "domain", 9, description)
                   \o LiteralSkillHits(tech_skills_patterns, "technical", 7, description)
                   \o SoftSkillHits(description)
    IN  UniqueSkills(results, 1, <<>>)

\* The patterns of _extract_experience: [pre, post] around the group (\d+)
YearsOrYrs == Lit({"years", "yrs"})

ExperienceOrExp == Lit({"experience", "exp"})

OfOrSpaces == Alt(<<<<WsStar, Lit({"of"}), WsStar>>, <<WsPlus>>>>)

experience_patterns ==
    <<[pre |-> <<>>, post |-> <<Opt("+"), WsStar, YearsOrYrs, OfOrSpaces, ExperienceOrExp>>],
      [pre |-> <<ExperienceOrExp, OfOrSpaces>>, post |-> <<Opt("+"), WsStar, YearsOrYrs>>],
      [pre |-> <<>>,
       post |-> <<Opt("+"), WsStar, YearsOrYrs, Alt(<<<<WsStar>>, <<WsPlus>>>>), ExperienceOrExp>>],
      [pre |-> <<Lit({"minimum", "min"}), WsPlus, Alt(<<<<Lit({"of"}), WsPlus>>, <<>>>>)>>,
       post |-> <<Opt("+"), WsStar, YearsOrYrs>>]>>

last_resort_patterns ==
    <<[pre |-> <<>>, post |-> <<Opt("+"), WsStar, Lit({"years"})>>],
      [pre |-> <<>>, post |-> <<Opt("+"), WsStar, Lit({"yrs"})>>]>>

\* for pattern in patterns: the number of the first pattern that matches, else None
RECURSIVE FirstNumber(_, _, _)
FirstNumber(patterns, k, description) ==
    IF k > Len(patterns) THEN NoneVal
    ELSE LET found == SearchNumber(patterns[k].pre, patterns[k].post, description)
         IN  IF ~IsNone(found) THEN found ELSE FirstNumber(patterns, k + 1, description)

\* The rule-based fallback of _extract_education
ed_patterns ==
    <<[pattern |-> <<Lit({"bachelor"}), Opt("'"), Lit({"s"}), WsPlus, Lit({"degree"})>>,
       level |-> "Bachelor's", is_common |-> TRUE],
      [pattern |-> <<Lit({"master"}), Opt("'"), Lit({"s"}), WsPlus, Lit({"degree"})>>,
       level |-> "Master's", is_common |-> FALSE],
      [pattern |-> <<Lit({"phd", "doctorate"})>>, level |-> "Ph.D.", is_common |-> FALSE],
      [pattern |-> <<Lit({"associate"}), Opt("'"), Lit({"s"}), WsPlus, Lit({"degree"})>>,
       level |-> "Associate's", is_common |-> FALSE],
      [pattern |-> <<Lit({"high"}), WsPlus, Lit({"school"})>>,
       level |-> "High School", is_common |-> FALSE]>>

education_fields ==
    <<"business", "engineering", "computer science", "supply chain",
      "logistics", "operations", "management">>

RuleBasedEducation(description) ==
    LET found == SelectSeq(education_fields, LAMBDA f : SearchWord(Literal(f), description))
        field == IF found = <<>> THEN "General" ELSE Title(found[1])
        demanded == Search(<<Alt(<<<<Lit({"required"})>>, <<Lit({"must"}), WsPlus, Lit({"have"})>>>>)>>,
                           description)
        hits == SelectSeq(ed_patterns, LAMBDA e : Search(e.pattern, description))
    IN  [k \in 1..Len(hits) |->
            [level |-> hits[k].level, field |-> field,
             required |-> (hits[k].is_common \/ demanded)]]

\* The rule-based fallback of _extract_keywords
important_terms ==
    <<"Project Management", "Program Management", "Supply Chain",
      "Leadership", "Cross-functional", "Strategic", "KPIs", "Metrics",
      "Budget", "Cost Reduction", "Efficiency", "Optimization",
      "Process Improvement", "Lean", "Six Sigma", "Agile", "Scrum",
      "SAP", "ERP", "PowerPoint", "Excel", "Power BI", "Tableau",
      "Communication", "Stakeholder Management", "Risk Management">>

MaxKeywords == 15

RuleBasedKeywords(description) ==
    Take(SelectSeq(important_terms, LAMBDA term : SearchWord(Literal(term), description)),
         MaxKeywords)

\* The fallback of _extract_job_level: the first "<n> year" of the description
RuleBasedJobLevel(description) ==
    LET found == SearchNumber(<<>>, <<Opt("+"), WsStar, Lit({"year"})>>, description)
    IN  IF IsNone(found) THEN "mid"
        ELSE IF Val(found) <= 2 THEN "entry"
        ELSE IF Val(found) <= 5 THEN "mid"
        ELSE IF Val(found) <= 8 THEN "senior"
        ELSE "principal"

\* The fallback of _get_analysis_summary: fixed prose around title and company
FallbackSummary(title, company) ==
    "This " \o title \o " position at " \o company
    \o " appears to be focused on program management within a supply chain context."

-----------------------------------------------------------------------------
(* JobAnalyzer.analyze_job.  The backend is given by calls: for each call  *)
(* site the outcome of its generate / generate_structured call, Ok(value)  *)
(* or Raise(..).                                                           *)

\* The job postings analysed
JobTitles == {"Data Analyst", "Senior Data Engineer", "Lead Architect"}

JobDescriptions ==
    {"Python and SQL developer, 5+ years of experience. Bachelor's degree required. Agile team.",
     "Strong leadership and communication. Experience with supply chain planning over 3 years.",
     "We are hiring."}

\* The rule-based results for the descriptions analysed, computed once
RuleBased ==
    [d \in JobDescriptions |->
        [skills    |-> _rule_based_skill_extraction(d),
         years     |-> FirstNumber(experience_patterns, 1, d),
         last      |-> FirstNumber(last_resort_patterns, 1, d),
         education |-> RuleBasedEducation(d),
         job_level |-> RuleBasedJobLevel(d),
         keywords  |-> RuleBasedKeywords(d)]]

\* Each extraction takes rule, the rule-based results for its description
_extract_skills(rule, title, call) ==
    IF ~call.ok THEN rule.skills
    ELSE LET skills == Get(call.value, "skills", <<>>)
         IN  IF skills # <<>> THEN skills ELSE rule.skills

_extract_experience(rule, call) ==
    IF ~IsNone(rule.years) THEN rule.years
    ELSE IF call.ok THEN Get(call.value, "years", NoneVal)
    ELSE rule.last

_extract_education(rule, call) ==
    IF call.ok THEN Get(call.value, "education", <<>>)
    ELSE rule.education

\* The level the title's keywords give, None when it has none of them
\* The title test with the principal keywords tried before the senior ones
TitleLevel_principal_first(title) ==
    LET title_lower == Lower(title)
    IN  IF ContainsAny(title_lower, {"principal", "staff", "architect"}) THEN Some("principal")
        ELSE IF ContainsAny(title_lower, {"senior", "sr.", "sr ", "lead"}) THEN Some("senior")
        ELSE IF ContainsAny(title_lower, {"director", "head", "vp", "chief"}) THEN Some("executive")
        ELSE IF ContainsAny(title_lower, {"junior", "jr.", "jr ", "associate", "entry"})
             THEN Some("entry")
        ELSE NoneVal

TitleLevel(title) ==
    LET title_lower == Lower(title)
    IN  IF ContainsAny(title_lower, {"senior", "sr.", "sr ", "lead"}) THEN Some("senior")
        ELSE IF ContainsAny(title_lower, {"principal", "staff", "architect"}) THEN Some("principal")
        ELSE IF ContainsAny(title_lower, {"director", "head", "vp", "chief"}) THEN Some("executive")
        ELSE IF ContainsAny(title_lower, {"junior", "jr.", "jr ", "associate", "entry"})
             THEN Some("entry")
        ELSE NoneVal

\* The part of _extract_job_level after the title test: the backend's answer,
\* or the years found in the description when the call raised
ClassifiedLevel(rule, call) ==
    IF call.ok THEN Get(call.value, "level", Some("mid"))
    ELSE Some(rule.job_level)

_extract_job_level(title, rule, call) ==
    IF ~IsNone(TitleLevel(title)) THEN TitleLevel(title)
    ELSE ClassifiedLevel(rule, call)

_extract_keywords(rule, call) ==
    IF call.ok THEN Get(call.value, "keywords", <<>>)
    ELSE rule.keywords

_get_analysis_summary(j, call) ==
    IF call.ok THEN call.value ELSE FallbackSummary(j.title, j.company_name)

\* The six extractions analyze_job makes of a job that has a description
ExtractAll(j, rule, calls, now) ==
    [skills |-> _extract_skills(rule, j.title, calls.skills),
     experience_years |-> _extract_experience(rule, calls.experience),
     education |-> _extract_education(rule, calls.education),
     job_level |-> _extract_job_level(j.title, rule, calls.level),
     keywords |-> _extract_keywords(rule, calls.keywords),
     analysis_summary |-> _get_analysis_summary(j, calls.analysis_summary),
     analyzed_at |-> Some(now)]

\* The dict returned for a job without description; a key the dict lacks
\* reads as None
NoDescriptionAnalysis ==
    [skills |-> <<>>, experience_years |-> NoneVal, education |-> <<>>,
     job_level |-> NoneVal, keywords |-> <<>>,
     analysis_summary |-> "No description available for analysis",
     analyzed_at |-> NoneVal]

\* The dict returned by analyze_job
analyze_job(j, calls, now) ==
    IF ~TruthyStr(j.description) THEN NoDescriptionAnalysis
    ELSE ExtractAll(j, RuleBased[Val(j.description)], calls, now)

\* What a structured call may answer: the expected key with a non-empty
\* value, the expected key with an empty list, or an object without the key
ErrorObject == [error |-> "Failed to parse JSON response", raw_response |-> "{"]

SkillsAnswers ==
    {Ok([skills |-> <<JobSkill("Kotlin", "technical", 9, Some(2))>>]),
     Ok([skills |-> <<>>]), Ok(ErrorObject), Raise("Exception")}

YearsAnswers == {Ok([years |-> Some(4)]), Ok([years |-> NoneVal]), Raise("Exception")}

EducationAnswers ==
    {Ok([education |-> <<[level |-> "Master's", field |-> "Physics", required |-> FALSE]>>]),
     Ok([education |-> <<>>]), Ok(ErrorObject), Raise("Exception")}

LevelAnswers ==
    {Ok([level |-> Some("senior")]), Ok([level |-> Some("guru")]), Ok(ErrorObject),
     Raise("Exception")}

KeywordsAnswers ==
    {Ok([keywords |-> <<"Kotlin">>]), Ok([keywords |-> <<>>]), Ok(ErrorObject),
     Raise("Exception")}

SummaryAnswers == {Ok("A data role with a small team."), Raise("Exception")}

Backends ==
    [skills : SkillsAnswers, experience : YearsAnswers, education : EducationAnswers,
     level : LevelAnswers, keywords : KeywordsAnswers, analysis_summary : SummaryAnswers]

NewJobs ==
    [id : {"j1"},
     title : JobTitles,
     company_name : {"Hooli"},
     description : {NoneVal, Some("")} \cup {Some(d) : d \in JobDescriptions},
     analysis : {NoneVal}]

InitAnalyze ==
    /\ profile = Idle
    /\ job \in NewJobs
    /\ llm \in Backends
    /\ match = NoneVal
    /\ content = NoneVal
    /\ pc = "new"
    /\ clock = 1
    /\ fit = Idle
    /\ gs = Idle

\* job.analysis = await self.job_analyzer.analyze_job(job)
AnalyzeJob ==
    /\ pc = "new"
    /\ IsNone(job.analysis)
    /\ job' = [job EXCEPT !.analysis = Some(analyze_job(job, llm, clock))]
    /\ clock' = clock + 1
    /\ pc' = "analysed"
    /\ UNCHANGED <<profile, llm, match, content, fit, gs>>

NextAnalyze == AnalyzeJob

SpecAnalyze == InitAnalyze /\ [][NextAnalyze]_vars

\* The profile cached on the job once analyze_job has returned
Analysed == pc = "analysed" /\ ~IsNone(job.analysis)

Profile == Val(job.analysis)

AllCallsFail == \A site \in DOMAIN llm : ~llm[site].ok

JobLevels == {"entry", "mid", "senior", "principal", "executive"}

SkillCategories == {"technical", "soft", "domain"}

WellFormedSkill(sk) ==
    /\ DOMAIN sk = {"name", "category", "relevance", "years_required"}
    /\ sk.name # ""
    /\ sk.category \in SkillCategories
    /\ ~IsNone(sk.relevance) /\ Val(sk.relevance) \in 1..10

WellFormedSkills(skills) == \A k \in 1..Len(skills) : WellFormedSkill(skills[k])

\* C6: with every generate and generate_structured call failing, the profile
\* returned by analyze_job is complete for every title and description, the
\* empty and the missing description included: job_level is not null and is
\* one of the five levels, and skills is a list of well-formed entries.
C6_DegradedProfileComplete ==
    (Analysed /\ AllCallsFail) =>
        /\ ~IsNone(Profile.job_level)
        /\ Val(Profile.job_level) \in JobLevels
        /\ WellFormedSkills(Profile.skills)

\* The part of C6 the code does keep
C6_CompleteWhenDescribed ==
    (Analysed /\ AllCallsFail /\ TruthyStr(job.description)) =>
        /\ ~IsNone(Profile.job_level)
        /\ Val(Profile.job_level) \in JobLevels
        /\ WellFormedSkills(Profile.skills)

\* An answer that came back without error but lacks the key or holds an empty list
EmptyOrMalformed(call, key) == call.ok /\ Get(call.value, key, <<>>) = <<>>

UsesFallback(call, key) == ~call.ok \/ EmptyOrMalformed(call, key)

\* C9: for skills, education and keywords the value returned is the
\* rule-based result for the description whenever the generative call raised,
\* answered with an object that lacks the expected key, or answered with an
\* empty list.
C9_FallbackOnEmptyOrMalformed ==
    (Analysed /\ TruthyStr(job.description)) =>
        LET d == Val(job.description)
        IN  /\ UsesFallback(llm.skills, "skills") =>
                  Profile.skills = RuleBased[d].skills
            /\ UsesFallback(llm.education, "education") =>
                  Profile.education = RuleBased[d].education
            /\ UsesFallback(llm.keywords, "keywords") =>
                  Profile.keywords = RuleBased[d].keywords

-----------------------------------------------------------------------------
(* ResumeGenerator: content synthesis (generator.py)                       *)

StartsWith(s, prefix) == Len(prefix) <= Len(s) /\ SubSeq(s, 1, Len(prefix)) = prefix

\* str.strip()
RECURSIVE LStrip(_)
LStrip(s) == IF s # "" /\ IsSpace(Char(s, 1)) THEN LStrip(SubSeq(s, 2, Len(s))) ELSE s

RECURSIVE RStrip(_)
RStrip(s) ==
    IF s # "" /\ IsSpace(Char(s, Len(s))) THEN RStrip(SubSeq(s, 1, Len(s) - 1)) ELSE s

Strip(s) == LStrip(RStrip(s))

\* Location.display_location: ", ".join of the parts that are set
RECURSIVE JoinComma(_)
JoinComma(parts) ==
    IF parts = <<>> THEN ""
    ELSE IF Len(parts) = 1 THEN parts[1]
    ELSE parts[1] \o ", " \o JoinComma(Tail(parts))

display_location(loc) ==
    LET set == SelectSeq(<<loc.city, loc.state, loc.country>>, TruthyStr)
    IN  JoinComma([k \in 1..Len(set) |-> Val(set[k])])

LevelWords == <<"senior", "lead", "principal", "staff", "junior", "associate">>

RomanNumerals == {"i", "ii", "iii", "iv", "v"}

\* re.sub(r'^(senior|lead|principal|staff|junior|associate)\s+', '', s)
StripLevel(s) ==
    LET ends == UNION {PatternEnds(<<Lit({LevelWords[k]}), WsPlus>>, 1, s, {1}) :
                          k \in 1..Len(LevelWords)}
    IN  IF ends = {} THEN s
        ELSE SubSeq(s, (CHOOSE e \in ends : \A x \in ends : x <= e), Len(s))

\* re.sub(r'\s+(i|ii|iii|iv|v)$', '', s)
StripNumeral(s) ==
    LET starts == {i \in 1..Len(s) :
                      (Len(s) + 1) \in PatternEnds(<<WsPlus, Lit(RomanNumerals)>>, 1, s, {i})}
    IN  IF starts = {} THEN s
        ELSE SubSeq(s, 1, (CHOOSE i \in starts : \A x \in starts : i <= x) - 1)

_customize_title(user_title, job_title) ==
    LET user_title_lower == Lower(user_title)
        job_title_lower == Lower(job_title)
        job_core == StripNumeral(StripLevel(job_title_lower))
        user_core == StripNumeral(StripLevel(user_title_lower))
        levels == SelectSeq(LevelWords, LAMBDA w : StartsWith(job_title_lower, w))
        job_words == WordSet(job_title_lower)
        user_words == WordSet(user_title_lower)
    IN  IF user_title_lower = job_title_lower THEN user_title
        ELSE IF job_core = user_core /\ levels # <<>>
             THEN Title(levels[1]) \o " " \o Title(user_core)
        ELSE IF Cardinality(job_words \cap user_words) >= 2 THEN job_title
        ELSE user_title

\* existing_summary = user_profile.summary or ""
ExistingSummary(user_profile) ==
    IF TruthyStr(user_profile.summary) THEN Val(user_profile.summary) ELSE ""

_generate_summary(user_profile, j, match_results, call) ==
    IF call.ok THEN Strip(call.value) ELSE ExistingSummary(user_profile)

TechTerms ==
    {"programming", "software", "database", "framework", "language",
     "platform", "tool", "system", "development", "engineering"}

SoftTerms ==
    {"communication", "leadership", "teamwork", "problem solving",
     "management", "collaboration", "organization", "creative"}

\* The first loop of _generate_skills_section: matched skills by category
RECURSIVE MatchedByCategory(_, _, _)
MatchedByCategory(matched_skills, k, acc) ==
    IF k > Len(matched_skills) THEN acc
    ELSE LET name == matched_skills[k].skill_name
             category == matched_skills[k].category
             field == IF category \in {"technical", "soft"} THEN category ELSE "domain"
         IN  MatchedByCategory(matched_skills, k + 1,
                               [acc EXCEPT ![field] = Append(@, name)])

\* The second loop: the profile's other skills, categorised by their words
RECURSIVE OtherByCategory(_, _, _)
OtherByCategory(skills, k, acc) ==
    IF k > Len(skills) THEN acc
    ELSE LET name == skills[k].name
             listed == name \in (Range(acc.technical) \cup Range(acc.soft) \cup Range(acc.domain))
             field == IF ContainsAny(Lower(name), TechTerms) THEN "technical"
                      ELSE IF ContainsAny(Lower(name), SoftTerms) THEN "soft"
                      ELSE "domain"
         IN  IF listed THEN OtherByCategory(skills, k + 1, acc)
             ELSE OtherByCategory(skills, k + 1, [acc EXCEPT ![field] = Append(@, name)])

MaxTechnicalSkills == 10

MaxSoftSkills == 5

MaxDomainSkills == 5

_generate_skills_section(user_profile, j, match_results) ==
    LET matched == MatchedByCategory(match_results.skill_match.matched_skills, 1,
                                     [technical |-> <<>>, soft |-> <<>>, domain |-> <<>>])
        all == OtherByCategory(user_profile.skills, 1, matched)
    IN  [technical |-> Take(all.technical, MaxTechnicalSkills),
         soft |-> Take(all.soft, MaxSoftSkills),
         domain |-> Take(all.domain, MaxDomainSkills)]

\* _tailor_achievements is handed a ProfileExperience; its first statement,
\* experience.get("achievements", []), is outside the try block and the model
\* class has no attribute get, so the call raises before any prompt is built.
_tailor_achievements(experience, j, match_results) == Raise("AttributeError")

\* relevant_exp_ids.index(exp_id) if exp_id in relevant_exp_ids else 999
NotRelevant == 999

RelevanceOrder(exp_id, relevant_exp_ids) ==
    LET at == {k \in 1..Len(relevant_exp_ids) : relevant_exp_ids[k] = exp_id}
    IN  IF at = {} THEN NotRelevant ELSE (CHOOSE k \in at : \A x \in at : k <= x) - 1

TopRelevant == 3

\* One pass of the loop over user_profile.experiences
TailoredExperience(exp, relevant_exp_ids, j, match_results) ==
    LET relevance_order == RelevanceOrder(exp.company \o exp.title, relevant_exp_ids)
        achievements == IF relevance_order < TopRelevant
                        THEN _tailor_achievements(exp, j, match_results)
                        ELSE Ok(exp.achievements)
    IN  IF ~achievements.ok THEN achievements
        ELSE Ok([company |-> exp.company, title |-> exp.title,
                 start_date |-> exp.start_date, end_date |-> exp.end_date,
                 description |-> exp.description, achievements |-> achievements.value,
                 skills_used |-> exp.skills_used, location |-> exp.location,
                 relevance_order |-> relevance_order])

\* Order of the characters of a date string
CharOrder(c) == Find("-0123456789", c, 1)

\* a <= b for Python str
RECURSIVE StrLe(_, _)
StrLe(a, b) ==
    IF a = "" THEN TRUE
    ELSE IF b = "" THEN FALSE
    ELSE IF Char(a, 1) = Char(b, 1) THEN StrLe(SubSeq(a, 2, Len(a)), SubSeq(b, 2, Len(b)))
    ELSE CharOrder(Char(a, 1)) < CharOrder(Char(b, 1))

\* The sort key (relevance_order, end_date + start_date) and its order
SortKey(x) == [order |-> x.relevance_order, dates |-> Val(x.end_date) \o x.start_date]

KeyLe(a, b) == a.order < b.order \/ (a.order = b.order /\ StrLe(a.dates, b.dates))

\* sorted(.., key, reverse=True): descending, equal keys in their original order
RECURSIVE InsertByKeyDesc(_, _)
InsertByKeyDesc(sorted, x) ==
    IF sorted = <<>> THEN <<x>>
    ELSE IF KeyLe(SortKey(x), SortKey(Head(sorted)))
         THEN <<Head(sorted)>> \o InsertByKeyDesc(Tail(sorted), x)
         ELSE <<x>> \o sorted

RECURSIVE SortedByKeyDesc(_, _)
SortedByKeyDesc(xs, n) ==
    IF n = 0 THEN <<>> ELSE InsertByKeyDesc(SortedByKeyDesc(xs, n - 1), xs[n])

_generate_experience_section(user_profile, j, match_results) ==
    LET relevant == match_results.relevant_experiences
        relevant_exp_ids == [k \in 1..Len(relevant) |-> relevant[k].company \o relevant[k].title]
        exps == user_profile.experiences
        tailored == [k \in 1..Len(exps) |->
                        TailoredExperience(exps[k], relevant_exp_ids, j, match_results)]
        failed == {k \in 1..Len(exps) : ~tailored[k].ok}
        tailored_experiences == [k \in 1..Len(exps) |-> tailored[k].value]
    IN  IF failed # {} THEN tailored[CHOOSE k \in failed : \A x \in failed : k <= x]
        ELSE IF \E k \in 1..Len(exps) : IsNone(exps[k].end_date)
        THEN Raise("TypeError")    \* None + str in the sort key
        ELSE Ok(SortedByKeyDesc(tailored_experiences, Len(tailored_experiences)))

\* calls gives the outcome of the generate call of each call site reached
_generate_resume_content(user_profile, j, match_results, calls) ==
    LET header == [name |-> Get(user_profile.name, "first", "") \o " "
                            \o Get(user_profile.name, "last", ""),
                   title |-> _customize_title(user_profile.title, j.title),
                   contact |-> [email |-> user_profile.contact.email,
                                phone |-> user_profile.contact.phone,
                                location |-> display_location(user_profile.contact.location),
                                linkedin |-> user_profile.contact.linkedin,
                                website |-> user_profile.contact.website]]
        summary == _generate_summary(user_profile, j, match_results, calls.summary)
        skills == _generate_skills_section(user_profile, j, match_results)
        experience == _generate_experience_section(user_profile, j, match_results)
    IN  IF ~experience.ok THEN experience
        ELSE Ok([header |-> header, summary |-> summary, skills |-> skills,
                 experience |-> experience.value,
                 education |-> user_profile.education,
                 certifications |-> user_profile.certifications])

-----------------------------------------------------------------------------
(* Resume runs: steps 2 and 4 of generate_resume on an analysed job, the   *)
(* backend given by the outcome of each generate call                      *)

Summaries == {NoneVal, Some("Developer with ten years of experience.")}

GenBackends == [summary : {Ok("  I build data products. "), Raise("Exception")}]

InitGen ==
    /\ profile \in {[p EXCEPT !.summary = s] : p \in {q \in Profiles : FewSkills(q)},
                                               s \in Summaries}
    /\ job \in AnalysedJobs
    /\ llm \in GenBackends
    /\ match = NoneVal
    /\ content = NoneVal
    /\ pc = "analysed"
    /\ clock = 1
    /\ fit = Idle
    /\ gs = Idle

\* resume_content = await self._generate_resume_content(..), reached only when
\* match_profile_to_job returned
GenerateResumeContent ==
    /\ pc = "matched"
    /\ Val(match).ok
    /\ content' = Some(_generate_resume_content(profile, job, Val(match).value, llm))
    /\ pc' = "generated"
    /\ UNCHANGED <<profile, job, llm, match, clock, fit, gs>>

NextGen == MatchProfileToJob \/ GenerateResumeContent

SpecGen == InitGen /\ [][NextGen]_vars

Generated == pc = "generated" /\ ~IsNone(content)

ContentRaised == Generated /\ ~Val(content).ok

Content == Val(content).value

Sections == {"header", "summary", "skills", "experience", "education", "certifications"}

\* The entry is one of the candidate's experiences with its achievements untouched
KeepsAchievements(entry) ==
    \E k \in 1..Len(profile.experiences) :
        /\ profile.experiences[k].company = entry.company
        /\ profile.experiences[k].title = entry.title
        /\ profile.experiences[k].start_date = entry.start_date
        /\ profile.experiences[k].achievements = entry.achievements

\* C7: with every generative call failing, content synthesis still returns a
\* complete ResumeContent; it has one entry per experience of the candidate,
\* each with the candidate's original achievements item for item, and its
\* summary is the candidate's existing summary verbatim.
C7_DegradedContentVerbatim ==
    (Generated /\ AllCallsFail) =>
        /\ Val(content).ok
        /\ DOMAIN Content = Sections
        /\ Len(Content.experience) = Len(profile.experiences)
        /\ \A k \in 1..Len(Content.experience) : KeepsAchievements(Content.experience[k])
        /\ Content.summary = (IF IsNone(profile.summary) THEN "" ELSE Val(profile.summary))

\* C8: whichever generate calls succeed and whichever raise, content
\* generation does not raise: it returns a ResumeContent whose summary is the
\* stripped backend text when that call succeeded and the existing summary
\* when it raised.
C8_ContentGenerationNeverRaises ==
    Generated =>
        /\ Val(content).ok
        /\ Content.summary = (IF llm.summary.ok THEN Strip(llm.summary.value)
                              ELSE ExistingSummary(profile))

\* The part of C7 and C8 the code does keep: a candidate without experience entries
C7_HoldsWithoutExperiences ==
    (Generated /\ profile.experiences = <<>>) =>
        /\ Val(content).ok
        /\ DOMAIN Content = Sections
        /\ Content.summary = (IF llm.summary.ok THEN "I build data products."
                              ELSE ExistingSummary(profile))

\* Content generation raises exactly when the candidate has an experience entry
C7_RaisesWithExperiences == Generated => (ContentRaised <=> profile.experiences # <<>>)

-----------------------------------------------------------------------------
(* The providers' generate_structured (openai.py, ollama.py,               *)
(* provider_simple.py).  The backend is a script: the outcome of each      *)
(* successive HTTP call, Ok(response text) or Raise(..).                   *)

\* s[i], "" outside s
At(s, i) == IF i \in 1..Len(s) THEN Char(s, i) ELSE ""

SkipSpaces(s, p) == CHOOSE q \in SpacesFrom(s, p) : \A x \in SpacesFrom(s, p) : x <= q

\* The value that starts at position p of a JSON text: an integer, null or a
\* string without escapes; next is the position after it, 0 when there is none
JsonValue(s, p) ==
    IF DigitsEnd(s, p) > p
    THEN [value |-> Some(ParseInt(SubSeq(s, p, DigitsEnd(s, p) - 1))), next |-> DigitsEnd(s, p)]
    ELSE IF p + 3 <= Len(s) /\ SubSeq(s, p, p + 3) = "null"
    THEN [value |-> NoneVal, next |-> p + 4]
    ELSE IF At(s, p) = "\"" /\ Find(s, "\"", p + 1) > 0
    THEN [value |-> Some(SubSeq(s, p + 1, Find(s, "\"", p + 1) - 1)),
          next |-> Find(s, "\"", p + 1) + 1]
    ELSE [value |-> NoneVal, next |-> 0]

\* json.loads for the texts used here: the empty object and objects of one
\* member "key": value; everything else these texts contain is no JSON
json_loads(s) ==
    LET key_open == SkipSpaces(s, 2)
        key_close == Find(s, "\"", key_open + 1)
        colon == SkipSpaces(s, key_close + 1)
        v == JsonValue(s, SkipSpaces(s, colon + 1))
        close == SkipSpaces(s, v.next)
    IN  IF At(s, 1) = "{" /\ SkipSpaces(s, 2) = Len(s) /\ At(s, Len(s)) = "}"
        THEN Ok(<<>>)
        ELSE IF /\ At(s, 1) = "{"
                /\ At(s, key_open) = "\"" /\ key_close > 0
                /\ At(s, colon) = ":"
                /\ v.next > 0
                /\ At(s, close) = "}" /\ close = Len(s)
        THEN Ok(SubSeq(s, key_open + 1, key_close - 1) :> v.value)
        ELSE Raise("JSONDecodeError")

\* json_start = response_text.find('{'); json_end = response_text.rfind('}') + 1
\* if json_start >= 0 and json_end > json_start
HasJsonRegion(response_text) ==
    /\ Find(response_text, "{", 1) >= 1
    /\ RFind(response_text, "}") >= Find(response_text, "{", 1)

\* response_text[json_start:json_end]
JsonRegion(response_text) ==
    SubSeq(response_text, Find(response_text, "{", 1), RFind(response_text, "}"))

ParseErrorObject(response_text) ==
    [error |-> "Failed to parse JSON from LLM response", raw_response |-> response_text]

\* OpenAIProvider.generate_structured on one backend outcome
OpenAIStructured(outcome) ==
    IF ~outcome.ok THEN outcome
    ELSE IF ~HasJsonRegion(outcome.value) THEN Raise("ValueError")
    ELSE LET parsed == json_loads(JsonRegion(outcome.value))
         IN  IF parsed.ok THEN parsed ELSE Ok(ParseErrorObject(outcome.value))

max_attempts == 3

\* A pass that goes on to the next attempt although its response parsed
OllamaPass_keeps_trying(outcome, attempt) ==
    LET last == attempt = max_attempts - 1
    IN  IF ~outcome.ok THEN (IF last THEN Some(outcome) ELSE NoneVal)
        ELSE IF ~HasJsonRegion(outcome.value)
        THEN (IF last
              THEN Some(Ok([error |-> "No JSON object found in response after multiple attempts",
                            raw_response |-> outcome.value]))
              ELSE NoneVal)
        ELSE LET parsed == json_loads(JsonRegion(outcome.value))
             IN  IF last THEN Some(IF parsed.ok THEN parsed ELSE Ok(ParseErrorObject(outcome.value)))
                 ELSE NoneVal

\* One pass of the loop of ollama.py's generate_structured: the call's outcome
\* if this pass ends it, None if the loop goes on
OllamaPass(outcome, attempt) ==
    LET last == attempt = max_attempts - 1
    IN  IF ~outcome.ok THEN (IF last THEN Some(outcome) ELSE NoneVal)
        ELSE IF ~HasJsonRegion(outcome.value)
        THEN (IF last
              THEN Some(Ok([error |-> "No JSON object found in response after multiple attempts",
                            raw_response |-> outcome.value]))
              ELSE NoneVal)
        ELSE LET parsed == json_loads(JsonRegion(outcome.value))
             IN  IF parsed.ok THEN Some(parsed)
                 ELSE IF last THEN Some(Ok(ParseErrorObject(outcome.value)))
                 ELSE NoneVal

\* provider_simple.py: generate turns a backend failure into a text
SimpleGenerate(outcome) ==
    IF outcome.ok THEN outcome.value ELSE "Error generating text: " \o outcome.error

\* provider_simple.py: the default object chosen by the schema's properties
SchemaDefault(properties, message, response_text) ==
    IF "skills" \in properties THEN "skills" :> <<>>
    ELSE IF "education" \in properties THEN "education" :> <<>>
    ELSE IF "keywords" \in properties THEN "keywords" :> <<>>
    ELSE IF "years" \in properties THEN "years" :> NoneVal
    ELSE IF "level" \in properties THEN "level" :> Some("mid")
    ELSE [error |-> message, raw_response |-> response_text]

SimpleStructured(outcome, properties) ==
    LET response_text == SimpleGenerate(outcome)
    IN  IF HasJsonRegion(response_text)
        THEN LET parsed == json_loads(JsonRegion(response_text))
             IN  IF parsed.ok THEN parsed
                 ELSE Ok(SchemaDefault(properties, "Failed to parse JSON", response_text))
        ELSE Ok(SchemaDefault(properties, "No JSON object found in response", response_text))

-----------------------------------------------------------------------------
(* Structured calls: one generate_structured invocation per behaviour      *)

Providers == {"openai", "ollama", "simple"}

Responses ==
    {"{\"years\": 5}",
     "Here you go: {\"level\": \"senior\"} Thanks",
     "I cannot answer that",
     "{years: 5}",
     "} {"}

BackendOutcomes == {Ok(r) : r \in Responses} \cup {Raise("HTTPError")}

SchemaProperties == {{"years"}, {"level"}, {"skills"}, {"summary"}}

InitLLM ==
    /\ profile = Idle
    /\ job = Idle
    /\ llm = Idle
    /\ match = NoneVal
    /\ content = NoneVal
    /\ pc = "call"
    /\ clock = 1
    /\ fit = Idle
    /\ gs \in [kind : {"call"}, provider : Providers, properties : SchemaProperties,
               script : [1..max_attempts -> BackendOutcomes],
               attempt : {0}, result : {NoneVal}]

OpenAIGenerateStructured ==
    /\ pc = "call"
    /\ gs.provider = "openai"
    /\ gs' = [gs EXCEPT !.attempt = 1, !.result = Some(OpenAIStructured(gs.script[1]))]
    /\ pc' = "returned"
    /\ UNCHANGED <<profile, job, llm, match, content, clock, fit>>

\* One pass of the loop "for attempt in range(max_attempts)"; the statement
\* after the loop returns an error object
OllamaAttempt ==
    /\ pc = "call"
    /\ gs.provider = "ollama"
    /\ gs.attempt < max_attempts
    /\ LET ended == OllamaPass(gs.script[gs.attempt + 1], gs.attempt)
           exhausted == gs.attempt + 1 = max_attempts
           after_loop == Ok([error |-> "Failed to generate structured response after multiple attempts"])
       IN  /\ gs' = [gs EXCEPT !.attempt = @ + 1,
                               !.result = IF IsNone(ended) /\ exhausted
                                          THEN Some(after_loop) ELSE ended]
           /\ pc' = IF IsNone(ended) /\ ~exhausted THEN "call" ELSE "returned"
    /\ UNCHANGED <<profile, job, llm, match, content, clock, fit>>

SimpleGenerateStructured ==
    /\ pc = "call"
    /\ gs.provider = "simple"
    /\ gs' = [gs EXCEPT !.attempt = 1,
                        !.result = Some(SimpleStructured(gs.script[1], gs.properties))]
    /\ pc' = "returned"
    /\ UNCHANGED <<profile, job, llm, match, content, clock, fit>>

NextLLM == OpenAIGenerateStructured \/ OllamaAttempt \/ SimpleGenerateStructured

SpecLLM == InitLLM /\ [][NextLLM]_vars

Returned == pc = "returned" /\ ~IsNone(gs.result)

\* The backend outcome the invocation ended on
LastOutcome == gs.script[gs.attempt]

\* The outcome is a response whose JSON region parses
Parses(outcome) ==
    outcome.ok /\ HasJsonRegion(outcome.value) /\ json_loads(JsonRegion(outcome.value)).ok

\* C10: for every provider a generate_structured invocation ends either by
\* returning the object parsed from the JSON region of the backend response
\* or by raising; when the backend call failed, the response has no JSON
\* region, or the region does not parse, it raises and returns nothing.
C10_ParsedObjectOrRaise ==
    Returned =>
        IF Parses(LastOutcome)
        THEN Val(gs.result) = json_loads(JsonRegion(LastOutcome.value))
        ELSE ~Val(gs.result).ok

\* What the code keeps: a response that parses is returned parsed by every
\* provider, and openai.py raises when the backend failed or no region exists
C10_ParsedWhenParses ==
    (Returned /\ Parses(LastOutcome)) =>
        Val(gs.result) = json_loads(JsonRegion(LastOutcome.value))

C10_OpenAIRaisesWithoutRegion ==
    (Returned /\ gs.provider = "openai"
       /\ (~LastOutcome.ok \/ ~HasJsonRegion(LastOutcome.value))) => ~Val(gs.result).ok

\* The backend generate attempts made so far in this invocation
Attempts == gs.attempt

\* C11: one generate_structured invocation makes at most 3 backend generate
\* attempts, no attempt follows one whose response parsed, the invocation has
\* ended as soon as an attempt parsed, and after the third attempt it has ended
\* (returned or raised) whatever the backend outcomes were.
C11_AtMostThreeAttempts ==
    /\ Attempts <= 3
    /\ \A i \in 1..(Attempts - 1) : ~Parses(gs.script[i])
    /\ (Attempts >= 1 /\ Parses(gs.script[Attempts])) => Returned
    /\ Attempts = 3 => Returned
    /\ pc = "call" => IsNone(gs.result)

\* ollama.py ended after three attempts none of which parsed, the three
\* outcomes being a backend error, a response without JSON and unparseable JSON
C11_Witness ==
    /\ Returned
    /\ gs.provider = "ollama"
    /\ Attempts = 3
    /\ \A i \in 1..3 : ~Parses(gs.script[i])
    /\ \E i \in 1..3 : ~gs.script[i].ok
    /\ \E i \in 1..3 : gs.script[i].ok /\ ~HasJsonRegion(gs.script[i].value)
    /\ \E i \in 1..3 : gs.script[i].ok /\ HasJsonRegion(gs.script[i].value)

\* ollama.py stopped at its second attempt, the first whose response parsed
C11_StopsAtFirstParse ==
    (Returned /\ gs.provider = "ollama" /\ ~Parses(gs.script[1]) /\ Parses(gs.script[2]))
        => Attempts = 2 /\ Val(gs.result) = json_loads(JsonRegion(gs.script[2].value))

-----------------------------------------------------------------------------
(* analyze_job run twice on one posting with one backend: the outcome of   *)
(* every call site is the same in both runs.                               *)

InitRerun ==
    /\ profile = Idle
    /\ job \in {j \in NewJobs : j.title = "Data Analyst"}
    /\ llm \in Backends
    /\ match = NoneVal
    /\ content = NoneVal
    /\ pc = "new"
    /\ clock = 1
    /\ fit = Idle
    /\ gs = [kind |-> "rerun", first |-> NoneVal, second |-> NoneVal]

\* The run's result kept as the first or the second one
Keep(runs, position, result) ==
    IF position = "new" THEN [runs EXCEPT !.first = Some(result)]
    ELSE [runs EXCEPT !.second = Some(result)]

\* await analyze_job(job), the first time and again; datetime.utcnow() is read
\* as the call returns, and the clock may or may not have advanced before the
\* next call reads it
RunAnalysis ==
    /\ pc \in {"new", "once"}
    /\ gs' = Keep(gs, pc, analyze_job(job, llm, clock))
    /\ clock' \in {clock, clock + 1}
    /\ pc' = IF pc = "new" THEN "once" ELSE "twice"
    /\ UNCHANGED <<profile, job, llm, match, content, fit>>

NextRerun == RunAnalysis

SpecRerun == InitRerun /\ [][NextRerun]_vars

AnalysedTwice == pc = "twice" /\ ~IsNone(gs.first) /\ ~IsNone(gs.second)

ProfileFields ==
    {"skills", "experience_years", "education", "job_level", "keywords", "analysis_summary"}

\* C12: analyze_job run twice on the same title and description with a
\* deterministic backend yields two profiles identical in every field.
C12_AnalysisIdempotent == AnalysedTwice => Val(gs.first) = Val(gs.second)

\* What the code keeps: the two results agree on the six extracted fields, and
\* on every field when the posting has no description
C12_ExtractedFieldsIdentical ==
    AnalysedTwice =>
        /\ \A f \in ProfileFields : Val(gs.first)[f] = Val(gs.second)[f]
        /\ ~TruthyStr(job.description) => Val(gs.first) = Val(gs.second)

\* The two results differ exactly in analyzed_at, by the time between the runs
C12_DiffersOnlyInTimestamp ==
    (AnalysedTwice /\ Val(gs.first) # Val(gs.second)) =>
        /\ TruthyStr(job.description)
        /\ Val(gs.first).analyzed_at # Val(gs.second).analyzed_at

-----------------------------------------------------------------------------
(* Concurrent pipeline runs on one job entity.  A run is one coroutine of  *)
(* match_profile_to_job or generate_resume; the event loop switches runs   *)
(* only where a run awaits the backend, so what a run does between two     *)
(* such awaits is one step.  After its analysis a run no longer assigns    *)
(* job.analysis; the run is followed up to the read of job.analysis that   *)
(* opens the matching (matcher.py:37-40).                                  *)

Runs == {1, 2}

Operations == {"match_profile_to_job", "generate_resume"}

FailingBackend ==
    [skills |-> Raise("Exception"), experience |-> Raise("Exception"),
     education |-> Raise("Exception"), level |-> Raise("Exception"),
     keywords |-> Raise("Exception"), analysis_summary |-> Raise("Exception")]

AnsweringBackend ==
    [skills |-> Ok([skills |-> <<JobSkill("Kotlin", "technical", 9, Some(2))>>]),
     experience |-> Ok([years |-> Some(4)]),
     education |-> Ok([education |-> <<[level |-> "Master's", field |-> "Physics",
                                        required |-> FALSE]>>]),
     level |-> Ok([level |-> Some("senior")]),
     keywords |-> Ok([keywords |-> <<"Kotlin">>]),
     analysis_summary |-> Ok("A data role with a small team.")]

RunBackends == {FailingBackend, AnsweringBackend}

\* The call sites of analyze_job in the order it reaches them, and the local
\* variable each one assigns
Sites == <<"skills", "experience", "education", "level", "keywords", "analysis_summary">>

FieldOf ==
    [skills |-> "skills", experience |-> "experience_years", education |-> "education",
     level |-> "job_level", keywords |-> "keywords", analysis_summary |-> "analysis_summary"]

\* Whether the extraction at the site awaits the backend: _extract_experience
\* only when the regular expressions found no number, _extract_job_level only
\* when the title has no level keyword
Awaits(site, j, rule) ==
    CASE site = "experience" -> IsNone(rule.years)
      [] site = "level" -> IsNone(TitleLevel(j.title))
      [] OTHER -> TRUE

\* The first site from k on that awaits, Len(Sites) + 1 when there is none
RECURSIVE NextAwait(_, _, _)
NextAwait(k, j, rule) ==
    IF k > Len(Sites) THEN k
    ELSE IF Awaits(Sites[k], j, rule) THEN k
    ELSE NextAwait(k + 1, j, rule)

\* The local variables of analyze_job assigned when it is suspended at site k
Locals(full, k) == [f \in {FieldOf[Sites[i]] : i \in 1..(k - 1)} |-> full[f]]

NewRun(op) ==
    [op |-> op, pc |-> "start", site |-> 0, local |-> <<>>, seen |-> NoneVal,
     before |-> NoneVal, cancelled |-> FALSE]

InitRuns ==
    /\ profile = Idle
    /\ job \in {j \in NewJobs :
                  /\ j.title \in {"Data Analyst", "Senior Data Engineer"}
                  /\ j.description \in {NoneVal, Some("We are hiring."),
                        Some("Python and SQL developer, 5+ years of experience. Bachelor's degree required. Agile team.")}}
    /\ llm \in [Runs -> RunBackends]
    /\ match = NoneVal
    /\ content = NoneVal
    /\ pc = "runs"
    /\ clock = 1
    /\ fit = Idle
    /\ \E ops \in [Runs -> Operations] :
          gs = [kind |-> "runs", run |-> [r \in Runs |-> NewRun(ops[r])],
                executed |-> 0, written |-> 0, writers |-> {}]

\* The run reads job.analysis and goes on to the matching
Matching(run, analysis) == [run EXCEPT !.pc = "matched", !.seen = analysis]

\* if not job.analysis: job.analysis = await self.job_analyzer.analyze_job(job),
\* up to the first await of the backend.  A job without description is
\* analysed without any await.
Begin(r) ==
    LET run == [gs.run[r] EXCEPT !.before = job.analysis]
    IN  /\ gs.run[r].pc = "start"
        /\ IF ~IsNone(job.analysis)
           THEN /\ gs' = [gs EXCEPT !.run[r] = Matching(run, job.analysis)]
                /\ job' = job
           ELSE IF ~TruthyStr(job.description)
           THEN /\ job' = [job EXCEPT !.analysis = Some(NoDescriptionAnalysis)]
                /\ gs' = [gs EXCEPT !.run[r] = Matching(run, Some(NoDescriptionAnalysis)),
                                    !.executed = @ + 1, !.written = @ + 1,
                                    !.writers = @ \cup {r}]
           ELSE /\ gs' = [gs EXCEPT !.run[r] = [run EXCEPT !.pc = "analysing", !.site = 1],
                                    !.executed = @ + 1]
                /\ job' = job
        /\ UNCHANGED <<profile, llm, match, content, pc, clock, fit>>

\* An analyze_job that stores its fields on the job as it computes them
Publish_partial(cached, local, full, returned) ==
    IF returned THEN Some(full) ELSE Some(local)

\* What job.analysis holds after a step of analyze_job: the returned dict once
\* the call has returned, and what it held before until then
Publish(cached, local, full, returned) == IF returned THEN Some(full) ELSE cached

\* The backend call the run awaits completes: analyze_job runs on to its next
\* await, or to its return and the assignment of job.analysis
Resumed(r, rule) ==
    LET run == gs.run[r]
        full == ExtractAll(job, rule, llm[r], clock)
        next == NextAwait(run.site + 1, job, rule)
        returned == next > Len(Sites)
        local == Locals(full, next)
        analysis == Publish(job.analysis, local, full, returned)
    IN  /\ job' = [job EXCEPT !.analysis = analysis]
        /\ IF returned
           THEN /\ gs' = [gs EXCEPT !.run[r] = Matching([run EXCEPT !.site = next,
                                                          !.local = local], analysis),
                                    !.written = @ + 1, !.writers = @ \cup {r}]
                /\ clock' = clock + 1
           ELSE /\ gs' = [gs EXCEPT !.run[r] = [run EXCEPT !.site = next, !.local = local]]
                /\ clock' = clock

Resume(r) ==
    /\ gs.run[r].pc = "analysing"
    /\ Resumed(r, RuleBased[Val(job.description)])
    /\ UNCHANGED <<profile, llm, match, content, pc, fit>>

\* A run whose task swallows the cancellation and stays at its await
AfterCancel_swallowed(run) == [run EXCEPT !.cancelled = TRUE]

\* The task of the run is cancelled at its await: CancelledError is raised
\* there, "except Exception" of the call site does not catch it, and it leaves
\* analyze_job and the run
AfterCancel(run) == [run EXCEPT !.pc = "cancelled", !.cancelled = TRUE]

Cancel(r) ==
    /\ gs.run[r].pc = "analysing"
    /\ ~gs.run[r].cancelled
    /\ gs' = [gs EXCEPT !.run[r] = AfterCancel(@)]
    /\ UNCHANGED <<profile, job, llm, match, content, pc, clock, fit>>

NextRuns == \E r \in Runs : Begin(r) \/ Resume(r) \/ Cancel(r)

SpecRuns == InitRuns /\ [][NextRuns]_vars

\* C13: over any sequence or interleaving of runs that share one job,
\* analyze_job is executed at most once for the job and job.analysis is
\* assigned at most once.
C13_AnalysedOncePerJob == gs.executed <= 1 /\ gs.written <= 1

\* What the code keeps: a run that starts when a profile is cached neither
\* analyses nor assigns, and reads the cached profile
C13_CachedProfileReused ==
    \A r \in Runs :
        (gs.run[r].pc # "start" /\ ~IsNone(gs.run[r].before)) =>
            /\ gs.run[r].pc = "matched"
            /\ gs.run[r].site = 0
            /\ gs.run[r].seen = gs.run[r].before
            /\ r \notin gs.writers

\* The dicts analyze_job can return for the job in the calls of the runs
WholeProfiles ==
    IF ~TruthyStr(job.description) THEN {NoDescriptionAnalysis}
    ELSE {ExtractAll(job, RuleBased[Val(job.description)], llm[r], t) :
            r \in Runs, t \in 1..clock}

\* C14: in every reachable state, job.analysis when present, and what every
\* run read from it, is the dict returned by one analyze_job call: all its
\* fields come from that one call, none from a call still in progress.
C14_ReaderSeesWholeProfile ==
    /\ ~IsNone(job.analysis) => Val(job.analysis) \in WholeProfiles
    /\ \A r \in Runs : ~IsNone(gs.run[r].seen) => Val(gs.run[r].seen) \in WholeProfiles

\* One run has read the cached profile while the other, with a different
\* backend, is suspended in analyze_job with four or more of its fields
\* computed
C14_Witness ==
    \E r, w \in Runs :
        /\ gs.run[r].pc = "matched" /\ ~IsNone(gs.run[r].seen)
        /\ gs.run[w].pc = "analysing" /\ gs.run[w].site >= 5
        /\ DOMAIN gs.run[w].local # {}
        /\ llm[r] # llm[w]
        /\ \E f \in DOMAIN gs.run[w].local : gs.run[w].local[f] # Val(gs.run[r].seen)[f]

\* C15: a run cancelled while its analysis is in flight never assigns
\* job.analysis, and job.analysis is what it was when the run started unless
\* another run assigned it.
C15_CancelledRunNeverWrites ==
    \A r \in Runs :
        gs.run[r].cancelled =>
            /\ r \notin gs.writers
            /\ job.analysis # gs.run[r].before => gs.writers \ {r} # {}

\* A run cancelled at its last await, with five fields computed, nothing
\* cached when it started, and no other run having assigned
C15_Witness ==
    \E r \in Runs :
        /\ gs.run[r].cancelled
        /\ gs.run[r].site = Len(Sites)
        /\ IsNone(gs.run[r].before)
        /\ IsNone(job.analysis)
        /\ gs.writers = {}
        /\ gs.executed = 2

-----------------------------------------------------------------------------
(* generate_resume from its first statement to its return, one action per  *)
(* step (generator.py:63-100).  gs.stages lists the steps the run entered. *)

\* The backend of a run: the call sites of analyze_job and the summary call
WithSummary(calls, summary) ==
    [site \in DOMAIN calls \cup {"summary"} |->
        IF site = "summary" THEN summary ELSE calls[site]]

ResumeBackends ==
    {WithSummary(FailingBackend, Raise("Exception")),
     WithSummary(AnsweringBackend, Ok("  I build data products. "))}

\* A run that goes from the analysis straight to the content
StageAfter_skips_match(stage) ==
    CASE stage = "start" -> "content"
      [] stage = "match" -> "content"
      [] stage = "content" -> "format"
      [] stage = "format" -> "save"
      [] stage = "save" -> "done"

\* The step that follows a step that returned
StageAfter(stage) ==
    CASE stage = "start" -> "match"
      [] stage = "match" -> "content"
      [] stage = "content" -> "format"
      [] stage = "format" -> "save"
      [] stage = "save" -> "done"

\* What generate_resume_pdf may do: return the path it wrote, or raise
PdfOutcomes(pdf_path) == {Ok(pdf_path), Raise("Exception")}

\* json.dump(resume_content, f): the education and certification sections are
\* lists of pydantic models, which the encoder refuses
JsonSerializable(resume_content) ==
    resume_content.education = <<>> /\ resume_content.certifications = <<>>

\* The environment's part of the file name: timestamp and uuid prefix
FileStamp == "20240101_120000_1a2b3c4d"

FileName(user_profile, j) ==
    Lower(Get(user_profile.name, "first", "user") \o "_"
          \o Get(user_profile.name, "last", "profile"))
    \o "_" \o Replace(Lower(j.company_name), " ", "_") \o "_" \o FileStamp

\* A _format_resume that reports the PDF also when its generation raised
_format_resume_always_pdf(pdf, json_path, file_name) ==
    [file_path |-> IF pdf.ok THEN pdf.value ELSE "", file_name |-> file_name,
     file_format |-> "pdf"]

\* _format_resume once the JSON file is written: PDF preferred, the JSON file
\* when generate_resume_pdf raised
_format_resume(pdf, json_path, file_name) ==
    IF pdf.ok
    THEN [file_path |-> pdf.value, file_name |-> file_name, file_format |-> "pdf"]
    ELSE [file_path |-> json_path, file_name |-> file_name, file_format |-> "json"]

InitResume ==
    /\ profile \in {q \in Profiles : FewSkills(q) /\ FewExperiences(q)}
    /\ job \in {j \in NewJobs :
                   /\ j.title = "Data Analyst"
                   /\ j.description \in {NoneVal, Some("We are hiring."),
                        Some("Python and SQL developer, 5+ years of experience. Bachelor's degree required. Agile team.")}}
               \cup {j \in AnalysedJobs : Len(Val(j.analysis).skills) <= 1}
    /\ llm \in ResumeBackends
    /\ match = NoneVal
    /\ content = NoneVal
    /\ pc = "start"
    /\ clock = 1
    /\ fit = Idle
    /\ gs = [kind |-> "resume", stages |-> <<>>, pdf |-> NoneVal, json_file |-> NoneVal,
             formatted |-> NoneVal, document |-> NoneVal, raised |-> NoneVal]

\* Step 1: if not job.analysis: job.analysis = await analyze_job(job)
AnalyzeStep ==
    /\ pc = "start"
    /\ IF IsNone(job.analysis)
       THEN /\ job' = [job EXCEPT !.analysis = Some(analyze_job(job, llm, clock))]
            /\ gs' = [gs EXCEPT !.stages = Append(@, "analysis")]
       ELSE UNCHANGED <<job, gs>>
    /\ clock' = clock + 1
    /\ pc' = StageAfter("start")
    /\ UNCHANGED <<profile, llm, match, content, fit>>

\* Step 2: match_results = await match_profile_to_job(user_profile, job)
MatchStep ==
    /\ pc = "match"
    /\ ~IsNone(job.analysis)
    /\ match' = Some(MatchAnalysed(profile, Val(job.analysis), clock))
    /\ gs' = [gs EXCEPT !.stages = Append(@, "matching"),
                        !.raised = IF match'[1].ok THEN @ ELSE Some(match'[1].error)]
    /\ pc' = IF match'[1].ok THEN StageAfter("match") ELSE "raised"
    /\ clock' = clock + 1
    /\ UNCHANGED <<profile, job, llm, content, fit>>

\* Steps 3 and 4: the template and _generate_resume_content
ContentStep ==
    /\ pc = "content"
    /\ content' = Some(_generate_resume_content(profile, job, Val(match).value, llm))
    /\ gs' = [gs EXCEPT !.stages = Append(@, "synthesis"),
                        !.raised = IF content'[1].ok THEN @ ELSE Some(content'[1].error)]
    /\ pc' = IF content'[1].ok THEN StageAfter("content") ELSE "raised"
    /\ UNCHANGED <<profile, job, llm, match, clock, fit>>

\* Step 5: _format_resume writes the JSON file, then tries the PDF
FormatStep ==
    /\ pc = "format"
    /\ LET file_name == FileName(profile, job)
           json_path == "resumes/" \o file_name \o ".json"
           pdf_path == "resumes/" \o file_name \o ".pdf"
       IN  IF ~JsonSerializable(Val(content).value)
           THEN /\ gs' = [gs EXCEPT !.stages = Append(@, "rendering"),
                                    !.raised = Some("TypeError")]
                /\ pc' = "raised"
           ELSE \E pdf \in PdfOutcomes(pdf_path) :
                   /\ gs' = [gs EXCEPT !.stages = Append(@, "rendering"),
                                       !.pdf = Some(pdf),
                                       !.json_file = Some([path |-> json_path,
                                                           data |-> Val(content).value]),
                                       !.formatted = Some(_format_resume(pdf, json_path, file_name))]
                   /\ pc' = StageAfter("format")
    /\ UNCHANGED <<profile, job, llm, match, content, clock, fit>>

\* Steps 6 and 7: the ResumeDocument, inserted and returned
SaveStep ==
    /\ pc = "save"
    /\ LET formatted == Val(gs.formatted)
           match_results == Val(match).value
       IN  gs' = [gs EXCEPT
                    !.stages = Append(@, "persistence"),
                    !.document = Some(
                        [id |-> Some("r1"), user_id |-> profile.id, job_id |-> job.id,
                         file_path |-> formatted.file_path,
                         file_name |-> formatted.file_name,
                         file_format |-> formatted.file_format,
                         customization |->
                            [match_score |-> match_results.overall_match,
                             fit_category |-> match_results.fit_category,
                             generated_at |-> clock,
                             highlighted_skills |->
                                [k \in 1..MinInt(5, Len(match_results.skill_match.matched_skills))
                                    |-> match_results.skill_match.matched_skills[k].skill_name]],
                         created_at |-> clock])]
    /\ pc' = StageAfter("save")
    /\ clock' = clock + 1
    /\ UNCHANGED <<profile, job, llm, match, content, fit>>

NextResume == AnalyzeStep \/ MatchStep \/ ContentStep \/ FormatStep \/ SaveStep

SpecResume == InitResume /\ [][NextResume]_vars

StageOrder == <<"analysis", "matching", "synthesis", "rendering", "persistence">>

StageRank(stage) == CHOOSE k \in 1..Len(StageOrder) : StageOrder[k] = stage

Entered(stage) == \E k \in 1..Len(gs.stages) : gs.stages[k] = stage

\* C16: within one generate_resume run the stages are entered in the order
\* analysis, matching, synthesis, rendering, persistence, none twice; matching
\* is not entered while job.analysis is absent, synthesis not before the
\* match result exists, and each later stage not before the one it follows.
C16_StagesAdvanceOneWay ==
    /\ \A a, b \in 1..Len(gs.stages) :
          a < b => StageRank(gs.stages[a]) < StageRank(gs.stages[b])
    /\ (pc = "match" \/ Entered("matching")) => ~IsNone(job.analysis)
    /\ (pc = "content" \/ Entered("synthesis")) =>
          Entered("matching") /\ ~IsNone(match) /\ Val(match).ok
    /\ (pc = "format" \/ Entered("rendering")) =>
          Entered("synthesis") /\ ~IsNone(content) /\ Val(content).ok
    /\ (pc = "save" \/ Entered("persistence")) => Entered("rendering")
    /\ IsNone(match) => ~Entered("matching")
    /\ IsNone(content) => ~Entered("synthesis")

\* A run that started without analysis and returned, all five stages entered
C16_Witness ==
    /\ pc = "done"
    /\ gs.stages = StageOrder
    /\ ~IsNone(gs.document)

C17_EducationStopsAtJsonDump ==
    (Entered("rendering") /\ profile.education # <<>>) =>
        pc = "raised" /\ gs.raised = Some("TypeError") /\ IsNone(gs.pdf)

-----------------------------------------------------------------------------
(* Matching runs on candidates whose experience entries may carry a date   *)
(* that strptime("%Y-%m") refuses                                          *)

DatedExperiencePool ==
    {ProfileExperience("Acme", "Senior Python Developer", "2018-01", Some("2021-01"),
                       Some("Built React apps"), <<"Cut load time by 40%", "Led 3 engineers">>,
                       <<"SQL">>),
     ProfileExperience("Initech", "Data Analyst", "2022-06", NoneVal,
                       NoneVal, <<"Automated weekly reporting">>, <<"Python">>),
     ProfileExperience("Umbrella", "Python Developer", "03/2015", Some("2017-06"),
                       NoneVal, <<"Migrated the billing system">>, <<"Python">>),
     ProfileExperience("Soylent", "React Developer", "2012-02", Some("Present"),
                       NoneVal, <<>>, <<"React">>)}

InitDates ==
    /\ profile \in {[p EXCEPT !.experiences = e] :
                       p \in {q \in Profiles : /\ FewSkills(q) /\ q.education = <<>>
                                                /\ q.experiences = <<>>},
                       e \in DistinctSeqsUpTo(DatedExperiencePool, MaxExperiences)}
    /\ job \in {j \in AnalysedJobs : Val(j.analysis).education = <<>>}
    /\ llm = Idle
    /\ match = NoneVal
    /\ content = NoneVal
    /\ pc = "analysed"
    /\ clock = 1
    /\ fit = Idle
    /\ gs = Idle

NextDates == MatchProfileToJob

SpecDates == InitDates /\ [][NextDates]_vars

\* The candidate's entries whose dates parse
ParseableExperiences == SelectSeq(profile.experiences, DatesParse)

Unparseable == {k \in 1..Len(profile.experiences) : ~DatesParse(profile.experiences[k])}

\* The match of the candidate without the entries whose dates do not parse
MatchOfParseable ==
    MatchAnalysed([profile EXCEPT !.experiences = ParseableExperiences],
                  Val(job.analysis), clock)

\* C18: when exactly one experience entry has an unparseable start or end date,
\* match_profile_to_job returns a result, and its total_years, relevant_years
\* and ranked experiences are those computed from the remaining entries.
C18_MalformedDateSkipped ==
    (pc = "matched" /\ Cardinality(Unparseable) = 1) =>
        /\ Val(match).ok
        /\ Result.experience_match.total_years
             = MatchOfParseable.value.experience_match.total_years
        /\ Result.experience_match.relevant_years
             = MatchOfParseable.value.experience_match.relevant_years
        /\ Result.relevant_experiences = MatchOfParseable.value.relevant_experiences

\* What the code does: any entry whose date does not parse makes the call
\* raise ValueError, and without such an entry the dates raise nothing
C18_MalformedDateRaises ==
    pc = "matched" =>
        IF Unparseable # {} THEN Val(match) = Raise("ValueError") ELSE Val(match).ok

-----------------------------------------------------------------------------
(* Ranking runs: _rank_experiences applied to experiences some of which    *)
(* score alike                                                             *)

MaxRanked == 3

\* Two entries that ended more than five years ago (recency factor 0.5 for
\* both), two that ended a month apart, and a current one
RankedExperiencePool ==
    {ProfileExperience("Hooli", "Developer", "2010-01", Some("2012-01"), NoneVal, <<>>, <<>>),
     ProfileExperience("Pied Piper", "Developer", "2011-03", Some("2013-05"), NoneVal, <<>>, <<>>),
     ProfileExperience("Aviato", "Developer", "2022-01", Some("2024-01"), NoneVal, <<>>, <<>>),
     ProfileExperience("Raviga", "Developer", "2022-06", Some("2024-02"), NoneVal, <<>>, <<>>),
     ProfileExperience("Initech", "Data Analyst", "2022-06", NoneVal,
                       NoneVal, <<"Automated weekly reporting">>, <<"Python">>)}

InitRank ==
    /\ profile \in {[p EXCEPT !.experiences = e] :
                       p \in {q \in Profiles : /\ q.skills = <<>> /\ q.education = <<>>
                                                /\ q.experiences = <<>>},
                       e \in DistinctSeqsUpTo(RankedExperiencePool, MaxRanked)}
    /\ job \in {[j EXCEPT !.analysis = Some([Val(j.analysis) EXCEPT !.job_level = l])] :
                   j \in {x \in AnalysedJobs :
                             /\ Val(x.analysis).education = <<>>
                             /\ Val(x.analysis).experience_years = NoneVal
                             /\ Val(x.analysis).skills
                                   \in {<<>>, <<JobSkill("Python", "technical", 8, Some(3))>>}},
                   l \in {Some("senior"), Some("mid")}}
    /\ llm = Idle
    /\ match = NoneVal
    /\ content = NoneVal
    /\ pc = "analysed"
    /\ clock = 1
    /\ fit = Idle
    /\ gs = Idle

\* relevant_experiences = await self._rank_experiences(profile.experiences,
\* job_skills, job_level)
RankExperiences ==
    /\ pc = "analysed"
    /\ match' = Some(_rank_experiences(profile.experiences, Val(job.analysis).skills,
                                       Val(job.analysis).job_level))
    /\ pc' = "ranked"
    /\ UNCHANGED <<profile, job, llm, content, clock, fit, gs>>

NextRank == RankExperiences

SpecRank == InitRank /\ [][NextRank]_vars

Ranked == pc = "ranked" /\ ~IsNone(match) /\ Val(match).ok

Ranking == Val(match).value

\* The position in the input of the experience a ranked entry was made from
InputIndex(entry) ==
    CHOOSE k \in 1..Len(profile.experiences) :
        /\ profile.experiences[k].company = entry.company
        /\ profile.experiences[k].title = entry.title

\* final_score of the experience a ranked entry was made from
FinalScoreOf(entry) ==
    FinalScore(profile.experiences[InputIndex(entry)], Val(job.analysis).skills,
               Val(job.analysis).job_level)

IsPermutationOfInput ==
    /\ Len(Ranking) = Len(profile.experiences)
    /\ \A k \in 1..Len(profile.experiences) :
          \E a \in 1..Len(Ranking) : InputIndex(Ranking[a]) = k

\* C19: the result of _rank_experiences is a permutation of the candidate's
\* experiences in non-increasing order of final relevance score, and two
\* experiences with identical scores keep their input order.
C19_RankedByFinalScoreStable ==
    Ranked =>
        /\ IsPermutationOfInput
        /\ \A a, b \in 1..Len(Ranking) :
              a < b =>
                 /\ RGe(FinalScoreOf(Ranking[a]), FinalScoreOf(Ranking[b]))
                 /\ FinalScoreOf(Ranking[a]) = FinalScoreOf(Ranking[b])
                       => InputIndex(Ranking[a]) < InputIndex(Ranking[b])

\* What the code keeps: a permutation in non-increasing order of the reported
\* relevance_score, round(final_score, 2), entries of equal reported score in
\* their input order
C19_RankedByReportedScoreStable ==
    Ranked =>
        /\ IsPermutationOfInput
        /\ \A a, b \in 1..Len(Ranking) :
              a < b =>
                 /\ RGe(Ranking[a].relevance_score, Ranking[b].relevance_score)
                 /\ Ranking[a].relevance_score = Ranking[b].relevance_score
                       => InputIndex(Ranking[a]) < InputIndex(Ranking[b])

\* A ranking of three in which the sort moved an entry forward and two
\* entries of equal reported score kept their input order
C19_Witness ==
    /\ Ranked
    /\ Len(Ranking) = 3
    /\ \E a, b \in 1..3 : a < b /\ InputIndex(Ranking[a]) > InputIndex(Ranking[b])
    /\ \E a, b \in 1..3 :
          /\ a < b
          /\ Ranking[a].relevance_score = Ranking[b].relevance_score
          /\ InputIndex(Ranking[a]) < InputIndex(Ranking[b])

\* Two entries whose final scores differ although their reported scores are
\* equal: the later one in the result has the higher final score
C19_RoundingHidesOrder ==
    Ranked =>
        \A a, b \in 1..Len(Ranking) :
            (a < b /\ ~RGe(FinalScoreOf(Ranking[a]), FinalScoreOf(Ranking[b])))
                => Ranking[a].relevance_score = Ranking[b].relevance_score

-----------------------------------------------------------------------------
(* The order of the experience section (generator.py:332-362) against the  *)
(* ranking of _rank_experiences, on the resume runs of SpecGen             *)

\* Position of an entry of the experience section in the ranking
RankOf(entry) ==
    RelevanceOrder(entry.company \o entry.title,
                   [k \in 1..Len(Val(match).value.relevant_experiences) |->
                       Val(match).value.relevant_experiences[k].company
                           \o Val(match).value.relevant_experiences[k].title])

InRankOrder(section) ==
    \A a, b \in 1..Len(section) : a < b => RankOf(section[a]) < RankOf(section[b])

\* C20: the experience section of the ResumeContent lists the candidate's
\* experiences in the order of the ranking: the entry ranked most relevant is
\* first, and of any two entries the better ranked one precedes the other.
C20_ExperienceSectionInRankOrder ==
    (Generated /\ profile.experiences # <<>>) =>
        /\ Val(content).ok
        /\ Len(Content.experience) = Len(profile.experiences)
        /\ InRankOrder(Content.experience)

\* The entries the loop at generator.py:337-359 builds when the achievements
\* are left as they are, and the result of the sort at generator.py:362 on them
UntailoredSection ==
    LET exps == profile.experiences
        entries == [k \in 1..Len(exps) |->
                       [company |-> exps[k].company, title |-> exps[k].title,
                        start_date |-> exps[k].start_date, end_date |-> exps[k].end_date,
                        description |-> exps[k].description,
                        achievements |-> exps[k].achievements,
                        skills_used |-> exps[k].skills_used, location |-> exps[k].location,
                        relevance_order |-> RankOf(exps[k])]]
    IN  SortedByKeyDesc(entries, Len(entries))

\* The sort of line 362 by itself puts the entries in the reverse of the
\* ranking: reverse=True on a key that starts with relevance_order
C20_SortReversesRanking ==
    (Generated /\ Val(match).ok /\ \A k \in 1..Len(profile.experiences) :
                                       ~IsNone(profile.experiences[k].end_date)) =>
        \A a, b \in 1..Len(UntailoredSection) :
            a < b => RankOf(UntailoredSection[a]) > RankOf(UntailoredSection[b])

\* A candidate with two experiences that have end dates
C20_TwoDatedExperiences ==
    /\ Generated
    /\ Len(profile.experiences) = 2
    /\ \A k \in 1..2 : ~IsNone(profile.experiences[k].end_date)

-----------------------------------------------------------------------------
(* Resume runs of candidates with up to four experiences, three of them    *)
(* with the same company and title (generator.py:332-359)                  *)

MaxTailored == 4

TailoredExperiencePool ==
    {ProfileExperience("Acme", "Engineer", "2015-01", Some("2016-01"), NoneVal,
                       <<"Shipped the billing service">>, <<>>),
     ProfileExperience("Acme", "Engineer", "2016-02", Some("2018-01"), NoneVal,
                       <<"Cut load time by 40%">>, <<>>),
     ProfileExperience("Acme", "Engineer", "2018-02", Some("2020-01"), NoneVal,
                       <<"Led 3 engineers">>, <<"Python">>),
     ProfileExperience("Globex", "Analyst", "2020-02", Some("2022-01"), NoneVal,
                       <<"Built the sales dashboard">>, <<>>),
     ProfileExperience("Initech", "Data Analyst", "2022-06", Some("2024-06"),
                       NoneVal, <<"Automated weekly reporting">>, <<"Python">>)}

InitTailor ==
    /\ profile \in {[p EXCEPT !.experiences = e] :
                       p \in {q \in Profiles : /\ q.skills = <<>> /\ q.education = <<>>
                                                /\ q.experiences = <<>>},
                       e \in DistinctSeqsUpTo(TailoredExperiencePool, MaxTailored)}
    /\ job \in {x \in AnalysedJobs :
                   /\ Val(x.analysis).education = <<>>
                   /\ Val(x.analysis).experience_years = NoneVal
                   /\ Val(x.analysis).skills
                         \in {<<>>, <<JobSkill("Python", "technical", 8, Some(3))>>}}
    /\ llm \in GenBackends
    /\ match = NoneVal
    /\ content = NoneVal
    /\ pc = "analysed"
    /\ clock = 1
    /\ fit = Idle
    /\ gs = Idle

NextTailor == MatchProfileToJob \/ GenerateResumeContent

SpecTailor == InitTailor /\ [][NextTailor]_vars

\* relevance_order of the k-th experience of the candidate in the loop of
\* _generate_experience_section
OrderOf(k) == RankOf(profile.experiences[k])

\* The passes of the loop in which _tailor_achievements is called: those with
\* relevance_order < 3 that the loop reaches, a raising call ending the loop
TailorCalls ==
    LET below == {k \in 1..Len(profile.experiences) : OrderOf(k) < TopRelevant}
    IN  {k \in below :
            \A e \in below :
                e < k => _tailor_achievements(profile.experiences[e], job,
                                              Val(match).value).ok}

\* C21: in one content-synthesis run the achievement rewrite is invoked for at
\* most three entries, those ranked in the top 3, whatever the candidate's
\* experiences (several with the same company and title included); every
\* other entry keeps the candidate's original achievements, and so does an
\* entry whose rewrite fails.
C21_RewriteOnlyTopThree ==
    (Generated /\ profile.experiences # <<>>) =>
        /\ Val(content).ok
        /\ Cardinality(TailorCalls) <= TopRelevant
        /\ \A k \in TailorCalls : OrderOf(k) < TopRelevant
        /\ Len(Content.experience) = Len(profile.experiences)
        /\ \A k \in 1..Len(Content.experience) : KeepsAchievements(Content.experience[k])

\* Experiences with the same company and title get the same relevance_order,
\* the index of the first of them in the ranking
C21_SameIdSameOrder ==
    Generated =>
        \A a, b \in 1..Len(profile.experiences) :
            (/\ profile.experiences[a].company = profile.experiences[b].company
             /\ profile.experiences[a].title = profile.experiences[b].title)
                => OrderOf(a) = OrderOf(b)

\* A candidate with four experiences, three of the same company and title,
\* all four passing the test relevance_order < 3
C21_FourAdmitted ==
    /\ Generated
    /\ Cardinality({k \in 1..Len(profile.experiences) : OrderOf(k) < TopRelevant}) = 4

\* The run raised in the first pass of the loop, at its only call of
\* _tailor_achievements
C21_RaisesAtFirstCall ==
    (Generated /\ profile.experiences # <<>>) => (~Val(content).ok /\ TailorCalls = {1})

-----------------------------------------------------------------------------
(* Title runs: _customize_title applied to a candidate title and a job     *)
(* title (generator.py:152-191)                                            *)

UserTitles ==
    {"Software Engineer", "Senior Software Engineer", "software engineer",
     "Software Engineer II", "Developer", "Junior Developer", "Data Analyst",
     "Lead Data Analyst", "Senior Data Engineer", "Staffing Manager II"}

TargetTitles ==
    {"Software Engineer", "Senior Software Engineer", "Lead Software Engineer",
     "Developer", "Senior Developer", "Data Analyst III", "Principal Data Analyst",
     "Data Engineer", "Senior Data Scientist", "Staffing Manager"}

InitTitle ==
    /\ profile \in [title : UserTitles]
    /\ job \in [title : TargetTitles]
    /\ llm = Idle
    /\ match = NoneVal
    /\ content = NoneVal
    /\ pc = "titles"
    /\ clock = 1
    /\ fit = Idle
    /\ gs = Idle

\* "title": self._customize_title(user_profile.title, job.title)
CustomizeTitle ==
    /\ pc = "titles"
    /\ content' = Some(Ok(_customize_title(profile.title, job.title)))
    /\ pc' = "titled"
    /\ UNCHANGED <<profile, job, llm, match, clock, fit, gs>>

NextTitle == CustomizeTitle

SpecTitle == InitTitle /\ [][NextTitle]_vars

Titled == pc = "titled" /\ ~IsNone(content)

CustomTitle == Val(content).value

\* The title in lower case without its leading level word and trailing numeral
CoreTitle(title) == StripNumeral(StripLevel(Lower(title)))

SharedWords == WordSet(Lower(profile.title)) \cap WordSet(Lower(job.title))

\* The candidate's core title behind a seniority prefix
AdaptedTitles ==
    {Title(LevelWords[k]) \o " " \o Title(CoreTitle(profile.title)) : k \in 1..Len(LevelWords)}

\* C22: _customize_title gives the job title outright only when the two
\* titles share at least 2 words and their core titles differ; with equal core
\* titles the result is the candidate's title or the candidate's core title
\* behind the job's seniority prefix; with fewer than 2 shared words (and
\* different core titles) the candidate's title comes back unchanged.
C22_JobTitleOnlyOnOverlap ==
    Titled =>
        /\ (CustomTitle = job.title /\ CustomTitle \notin ({profile.title} \cup AdaptedTitles))
              => (/\ Cardinality(SharedWords) >= 2
                  /\ CoreTitle(profile.title) # CoreTitle(job.title))
        /\ CoreTitle(profile.title) = CoreTitle(job.title)
              => CustomTitle \in ({profile.title} \cup AdaptedTitles)
        /\ (Cardinality(SharedWords) < 2 /\ CoreTitle(profile.title) # CoreTitle(job.title))
              => CustomTitle = profile.title

\* What the code does with equal core titles: the adapted title when the job
\* title starts with a level word, else the job title when 2 words are shared
C22_EqualCoresFallThrough ==
    (Titled /\ CoreTitle(profile.title) = CoreTitle(job.title)
            /\ Lower(profile.title) # Lower(job.title)) =>
        IF \E k \in 1..Len(LevelWords) : StartsWith(Lower(job.title), LevelWords[k])
        THEN CustomTitle \in AdaptedTitles
        ELSE IF Cardinality(SharedWords) >= 2 THEN CustomTitle = job.title
        ELSE CustomTitle = profile.title

\* With different core titles the result is as claimed
C22_DifferentCores ==
    (Titled /\ CoreTitle(profile.title) # CoreTitle(job.title)) =>
        CustomTitle = (IF Cardinality(SharedWords) >= 2 THEN job.title ELSE profile.title)

-----------------------------------------------------------------------------
(* Education runs: match_profile_to_job on jobs with up to two education   *)
(* requirements, and the computation of the loop of _match_education       *)
(* (matcher.py:262-347) on the degree and field of each entry              *)

MaxEducation == 2

\* degree_levels, in the order of the dict
degree_levels ==
    <<[name |-> "high school", score |-> 1], [name |-> "associate", score |-> 2],
      [name |-> "bachelor", score |-> 3], [name |-> "master", score |-> 4],
      [name |-> "mba", score |-> 4], [name |-> "phd", score |-> 5],
      [name |-> "doctorate", score |-> 5]>>

\* The score of the first level name contained in the text, 0 without one
DegreeLevelScore(text) ==
    LET hits == {k \in 1..Len(degree_levels) : Contains(text, degree_levels[k].name)}
    IN  IF hits = {} THEN 0
        ELSE degree_levels[CHOOSE k \in hits : \A x \in hits : k <= x].score

LevelMatch(profile_level_score, job_level_score) ==
    IF profile_level_score >= job_level_score THEN RInt(1)
    ELSE Rat(profile_level_score, IF job_level_score > 1 THEN job_level_score ELSE 1)

FieldMatch(job_field, profile_field) ==
    IF Contains(profile_field, job_field) \/ Contains(job_field, profile_field)
    THEN RInt(1)
    ELSE LET job_field_words == WordSet(job_field)
             common_words == job_field_words \cap WordSet(profile_field)
         IN  IF common_words # {}
             THEN Rat(Cardinality(common_words), Cardinality(job_field_words))
             ELSE RInt(0)

\* match_score = level_match * 0.7 + field_match * 0.3
CombinedScore(job_edu, profile_edu) ==
    RAdd(RMul(LevelMatch(DegreeLevelScore(Lower(profile_edu.degree)),
                         DegreeLevelScore(Lower(job_edu.level))), Rat(7, 10)),
         RMul(FieldMatch(Lower(job_edu.field), Lower(profile_edu.field)), Rat(3, 10)))

\* The combined scores above 0.6, the ones the loop retains
RetainedScores(profile_education, job_education) ==
    {sc \in {CombinedScore(job_education[a], profile_education[b]) :
                a \in 1..Len(job_education), b \in 1..Len(profile_education)} :
        RGt(sc, Rat(6, 10))}

BestRetained(profile_education, job_education) ==
    LET kept == RetainedScores(profile_education, job_education)
    IN  IF kept = {} THEN RInt(0) ELSE CHOOSE sc \in kept : \A x \in kept : RGe(sc, x)

\* education_score of matcher.py:335-339 from the values of the loop
EducationLoopScore(profile_education, job_education) ==
    LET best_match_score == BestRetained(profile_education, job_education)
        has_required == \E a \in 1..Len(job_education), b \in 1..Len(profile_education) :
                            /\ job_education[a].required
                            /\ RGt(CombinedScore(job_education[a], profile_education[b]),
                                   Rat(8, 10))
        any_required == \E a \in 1..Len(job_education) : job_education[a].required
    IN  IF ~any_required \/ has_required THEN best_match_score
        ELSE RMul(best_match_score, Rat(1, 2))

EducationRequirementPool ==
    {[level |-> "Bachelor's", field |-> "Computer Science", required |-> TRUE],
     [level |-> "PhD", field |-> "Physics", required |-> TRUE],
     [level |-> "Master's", field |-> "Data Science", required |-> FALSE]}

CandidateEducationPool ==
    {[degree |-> "Bachelor's", field |-> "Computer Science", institution |-> "MIT"],
     [degree |-> "Master of Science", field |-> "Data Science", institution |-> "ETH"],
     [degree |-> "High School Diploma", field |-> "General Studies", institution |-> "Leeds High"]}

InitEducation ==
    /\ profile \in {[p EXCEPT !.education = e] :
                       p \in {q \in Profiles : /\ q.skills = <<>> /\ q.education = <<>>
                                                /\ Len(q.experiences) <= 1},
                       e \in DistinctSeqsUpTo(CandidateEducationPool, MaxEducation)}
    /\ job \in {[j EXCEPT !.analysis = Some([Val(j.analysis) EXCEPT !.education = e])] :
                   j \in {x \in AnalysedJobs :
                             /\ Val(x.analysis).education = <<>>
                             /\ Val(x.analysis).skills = <<>>},
                   e \in DistinctSeqsUpTo(EducationRequirementPool, MaxEducation)}
    /\ llm = Idle
    /\ match = NoneVal
    /\ content = NoneVal
    /\ pc = "analysed"
    /\ clock = 1
    /\ fit = Idle
    /\ gs = Idle

NextEducation == MatchProfileToJob

SpecEducation == InitEducation /\ [][NextEducation]_vars

JobEducation == Val(job.analysis).education

\* A requirement marked required without a candidate education above 0.8
LacksRequired ==
    \E a \in 1..Len(JobEducation) :
        /\ JobEducation[a].required
        /\ \A b \in 1..Len(profile.education) :
              ~RGt(CombinedScore(JobEducation[a], profile.education[b]), Rat(8, 10))

\* The education score as the claim states it
ClaimedEducationScore ==
    IF LacksRequired THEN RMul(BestRetained(profile.education, JobEducation), Rat(1, 2))
    ELSE BestRetained(profile.education, JobEducation)

ReturnedMatch == pc = "matched" /\ ~IsNone(match)

\* C23: with education entries on both sides the education score is half of
\* the best retained combined score when some required requirement has no
\* candidate education above 0.8, and that best score itself otherwise; a job
\* without requirements gives 0.8.
C23_EducationScore ==
    ReturnedMatch =>
        /\ Val(match).ok
        /\ JobEducation = <<>>
              => Val(match).value.education_match.score = Rat(8, 10)
        /\ (JobEducation # <<>> /\ profile.education # <<>>)
              => Val(match).value.education_match.score = Round2(ClaimedEducationScore)

\* match_profile_to_job raises exactly when both sides have education entries
C23_RaisesWithEducationOnBothSides ==
    ReturnedMatch => (~Val(match).ok <=> (JobEducation # <<>> /\ profile.education # <<>>))

\* With no more than one required requirement the value of the loop is the
\* claimed one
C23_LoopAgreesOnOneRequired ==
    (/\ ReturnedMatch /\ JobEducation # <<>> /\ profile.education # <<>>
     /\ Cardinality({a \in 1..Len(JobEducation) : JobEducation[a].required}) <= 1)
        => EducationLoopScore(profile.education, JobEducation) = ClaimedEducationScore

\* Two required requirements of which one is met: the loop does not halve
C23_OneOfTwoRequiredMet ==
    /\ ReturnedMatch
    /\ LacksRequired
    /\ EducationLoopScore(profile.education, JobEducation)
          = BestRetained(profile.education, JobEducation)
    /\ BestRetained(profile.education, JobEducation) # RInt(0)

-----------------------------------------------------------------------------
(* Skill runs: match_profile_to_job on candidates whose skills record      *)
(* years of 0, 2 and 5 or none (matcher.py:104-147)                        *)

YearsSkillPool ==
    {ProfileSkill("Python", Some(5)),
     ProfileSkill("python", Some(0)),
     ProfileSkill("Python 3", Some(2)),
     ProfileSkill("SQL", Some(0)),
     ProfileSkill("Data Science", NoneVal)}

YearsRequirementPool ==
    {JobSkill("Python", "technical", 8, Some(3)),
     JobSkill("SQL", "technical", 6, Some(2)),
     JobSkill("data analysis", "domain", 5, NoneVal)}

InitSkills ==
    /\ profile \in {[p EXCEPT !.skills = sk] :
                       p \in {q \in Profiles : /\ q.skills = <<>> /\ q.education = <<>>
                                                /\ q.experiences = <<>>},
                       sk \in DistinctSeqsUpTo(YearsSkillPool, MaxProfileSkills)}
    /\ job \in {[j EXCEPT !.analysis = Some([Val(j.analysis) EXCEPT !.skills = sk])] :
                   j \in {x \in AnalysedJobs :
                             /\ Val(x.analysis).education = <<>>
                             /\ Val(x.analysis).skills = <<>>},
                   sk \in DistinctSeqsUpTo(YearsRequirementPool, MaxJobSkills)}
    /\ llm = Idle
    /\ match = NoneVal
    /\ content = NoneVal
    /\ pc = "analysed"
    /\ clock = 1
    /\ fit = Idle
    /\ gs = Idle

NextSkills == MatchProfileToJob

SpecSkills == InitSkills /\ [][NextSkills]_vars

MatchedSkills == Val(match).value.skill_match.matched_skills

\* The requirement a matched entry was recorded for
RequirementOf(entry) ==
    CHOOSE k \in 1..Len(JobSkills) : JobSkills[k].name = entry.job_skill

\* name_score * 0.7 + min(y / r, 1.0) * 0.3 for the candidate skill of the entry
ClaimedBlend(entry) ==
    RAdd(RMul(Val(NameMatchScore(Lower(entry.job_skill), Lower(entry.skill_name))),
              Rat(7, 10)),
         RMul(RMin(Rat(Val(entry.years_experience), Val(entry.years_required)), RInt(1)),
              Rat(3, 10)))

BlendedAsClaimed(entry) ==
    /\ entry.match_score = Round2(ClaimedBlend(entry))
    /\ entry.relevance_score
          = Round2(RMul(ClaimedBlend(entry),
                        Rat(Relevance(JobSkills[RequirementOf(entry)]), 10)))

\* C24: whenever the requirement has years_required r > 0 and the candidate
\* skill records a years value y >= 0, the final score of the match is
\* name_score * 0.7 + min(y / r, 1.0) * 0.3 and relevance_weighted is that
\* score times relevance / 10.
C24_YearsBlend ==
    (ReturnedMatch /\ Val(match).ok) =>
        \A k \in 1..Len(MatchedSkills) :
            (/\ ~IsNone(MatchedSkills[k].years_required)
             /\ Val(MatchedSkills[k].years_required) > 0
             /\ ~IsNone(MatchedSkills[k].years_experience)
             /\ Val(MatchedSkills[k].years_experience) >= 0)
                => BlendedAsClaimed(MatchedSkills[k])

\* The blend is applied as claimed when the recorded years are above 0
C24_BlendWhenYearsPositive ==
    (ReturnedMatch /\ Val(match).ok) =>
        \A k \in 1..Len(MatchedSkills) :
            (/\ ~IsNone(MatchedSkills[k].years_required)
             /\ Val(MatchedSkills[k].years_required) > 0
             /\ ~IsNone(MatchedSkills[k].years_experience)
             /\ Val(MatchedSkills[k].years_experience) > 0)
                => BlendedAsClaimed(MatchedSkills[k])

\* A recorded 0 is treated like no record: the name score is the final score
C24_ZeroYearsUnblended ==
    (ReturnedMatch /\ Val(match).ok) =>
        \A k \in 1..Len(MatchedSkills) :
            MatchedSkills[k].years_experience = Some(0)
                => MatchedSkills[k].match_score
                      = Round2(Val(NameMatchScore(Lower(MatchedSkills[k].job_skill),
                                                  Lower(MatchedSkills[k].skill_name))))

\* Python with 5 years against Python, 3 years required, relevance 8
C24_PythonScenario ==
    /\ ReturnedMatch /\ Val(match).ok
    /\ \E k \in 1..Len(MatchedSkills) :
          /\ MatchedSkills[k].skill_name = "Python"
          /\ MatchedSkills[k].years_experience = Some(5)
          /\ MatchedSkills[k].match_score = RInt(1)
          /\ MatchedSkills[k].relevance_score = Rat(8, 10)

-----------------------------------------------------------------------------
(* Level runs: _extract_job_level step by step (analyzer.py:401-470), the  *)
(* backend call counted                                                    *)

LevelTitles ==
    {"Senior Staff Engineer", "Lead Architect", "Sr. Director of Data", "Senior Associate",
     "Staff Director", "Principal Associate", "Chief Architect", "Associate Director",
     "VP Engineering", "Jr. Developer", "Entry Level Analyst", "Data Analyst",
     "Software Engineer"}

LevelReplies ==
    {Ok([level |-> Some("senior")]), Ok([level |-> Some("guru")]),
     Ok([level |-> NoneVal]), Ok(ErrorObject), Raise("Exception")}

InitLevel ==
    /\ profile = Idle
    /\ job \in [title : LevelTitles, description : {Some(d) : d \in JobDescriptions}]
    /\ llm \in [level : LevelReplies]
    /\ match = NoneVal
    /\ content = NoneVal
    /\ pc = "title"
    /\ clock = 1
    /\ fit = Idle
    /\ gs = [kind |-> "level", calls |-> 0, level |-> NoneVal]

\* analyzer.py:401-411: the keyword tests on the lowercased title
CheckTitle ==
    /\ pc = "title"
    /\ IF IsNone(TitleLevel(job.title))
       THEN pc' = "classify" /\ gs' = gs
       ELSE pc' = "returned" /\ gs' = [gs EXCEPT !.level = Some(TitleLevel(job.title))]
    /\ UNCHANGED <<profile, job, llm, match, content, clock, fit>>

\* analyzer.py:441-470: the generate_structured call and what follows it
ClassifyLevel ==
    /\ pc = "classify"
    /\ gs' = [gs EXCEPT !.calls = @ + 1,
                        !.level = Some(ClassifiedLevel(RuleBased[Val(job.description)],
                                                       llm.level))]
    /\ pc' = "returned"
    /\ UNCHANGED <<profile, job, llm, match, content, clock, fit>>

NextLevel == CheckTitle \/ ClassifyLevel

SpecLevel == InitLevel /\ [][NextLevel]_vars

\* The keywords of each level, analyzer.py:404-411
senior_keywords == {"senior", "sr.", "sr ", "lead"}

principal_keywords == {"principal", "staff", "architect"}

executive_keywords == {"director", "head", "vp", "chief"}

entry_keywords == {"junior", "jr.", "jr ", "associate", "entry"}

TitleHas(keywords) == \E w \in keywords : Contains(Lower(job.title), w)

LevelReturned == pc = "returned" /\ ~IsNone(gs.level)

\* C25: the title decides first, with precedence senior > principal >
\* executive > entry: a title with a senior keyword gives senior whatever other
\* keywords it has, else principal, else executive, else entry; and whenever a
\* title keyword matches the backend is not called for the job level.
C25_TitlePrecedence ==
    /\ (TitleHas(senior_keywords \cup principal_keywords
                  \cup executive_keywords \cup entry_keywords))
          => (gs.calls = 0 /\ pc # "classify")
    /\ LevelReturned =>
          /\ TitleHas(senior_keywords) => Val(gs.level) = Some("senior")
          /\ (~TitleHas(senior_keywords) /\ TitleHas(principal_keywords))
                => Val(gs.level) = Some("principal")
          /\ (~TitleHas(senior_keywords \cup principal_keywords)
                /\ TitleHas(executive_keywords))
                => Val(gs.level) = Some("executive")
          /\ (~TitleHas(senior_keywords \cup principal_keywords \cup executive_keywords)
                /\ TitleHas(entry_keywords))
                => Val(gs.level) = Some("entry")

\* A title with keywords of two levels, decided without the backend
C25_Witness ==
    /\ LevelReturned
    /\ TitleHas(senior_keywords) /\ TitleHas(principal_keywords)
    /\ Val(gs.level) = Some("senior")
    /\ gs.calls = 0
    /\ llm.level = Ok([level |-> Some("guru")])

\* A title without keyword is classified by exactly one backend call
C25_NoKeywordOneCall ==
    (LevelReturned /\ ~TitleHas(senior_keywords \cup principal_keywords
                                  \cup executive_keywords \cup entry_keywords))
        => gs.calls = 1

-----------------------------------------------------------------------------
(* The job level stored by analyze_job, on the runs of SpecAnalyze         *)

\* C26: for every job with a non-empty description and every response of the
\* backend (a structured answer without level or with a string outside the
\* enumeration included), the job_level stored in the profile is one of
\* entry, mid, senior, principal, executive.
C26_JobLevelInEnumeration ==
    (Analysed /\ TruthyStr(job.description)) =>
        Profile.job_level \in {Some(l) : l \in JobLevels}

\* The stored level is in the enumeration unless the backend was asked and
\* answered with a level of its own
C26_InEnumerationUnlessAnswered ==
    (Analysed /\ TruthyStr(job.description)
              /\ Profile.job_level \notin {Some(l) : l \in JobLevels}) =>
        /\ IsNone(TitleLevel(job.title))
        /\ llm.level.ok
        /\ "level" \in DOMAIN llm.level.value
        /\ Profile.job_level = llm.level.value.level

-----------------------------------------------------------------------------
(* Years runs: _extract_experience step by step (analyzer.py:248-298).     *)
(* The value of the "years" key of a backend answer is a JSON value of any *)
(* type, so values carry their type.                                       *)

JsonInt(n) == [type |-> "int", int |-> n]

JsonStr(str) == [type |-> "str", str |-> str]

JsonNull == [type |-> "null"]

YearsReplies ==
    {Ok([years |-> JsonInt(4)]), Ok([years |-> JsonNull]), Ok([years |-> JsonStr("3-5")]),
     Ok(ErrorObject), Raise("Exception")}

\* Optional[int] as a JSON value
OfOptionalInt(o) == IF IsNone(o) THEN JsonNull ELSE JsonInt(Val(o))

InitYears ==
    /\ profile = Idle
    /\ job \in [title : JobTitles, description : {Some(d) : d \in JobDescriptions}]
    /\ llm \in [experience : YearsReplies]
    /\ match = NoneVal
    /\ content = NoneVal
    /\ pc = "patterns"
    /\ clock = 1
    /\ fit = Idle
    /\ gs = [kind |-> "years", tried |-> <<>>, years |-> NoneVal]

\* The three steps read the rule-based results of the description, handed to
\* them as rule
PatternsStep(rule) ==
    /\ pc = "patterns"
    /\ IF IsNone(rule.years)
       THEN pc' = "generate" /\ gs' = [gs EXCEPT !.tried = Append(@, "patterns")]
       ELSE pc' = "returned"
            /\ gs' = [gs EXCEPT !.tried = Append(@, "patterns"),
                                !.years = Some(JsonInt(Val(rule.years)))]

GenerateStep ==
    /\ pc = "generate"
    /\ IF llm.experience.ok
       THEN pc' = "returned"
            /\ gs' = [gs EXCEPT !.tried = Append(@, "generate"),
                                !.years = Some(Get(llm.experience.value, "years", JsonNull))]
       ELSE pc' = "last_resort" /\ gs' = [gs EXCEPT !.tried = Append(@, "generate")]

LastResortStep(rule) ==
    /\ pc = "last_resort"
    /\ pc' = "returned"
    /\ gs' = [gs EXCEPT !.tried = Append(@, "last_resort"),
                        !.years = Some(OfOptionalInt(rule.last))]

\* One step of _extract_experience
ExtractExperienceStep ==
    /\ pc \in {"patterns", "generate", "last_resort"}
    /\ LET rule == RuleBased[Val(job.description)]
       IN  PatternsStep(rule) \/ GenerateStep \/ LastResortStep(rule)
    /\ UNCHANGED <<profile, job, llm, match, content, clock, fit>>

NextYears == ExtractExperienceStep

SpecYears == InitYears /\ [][NextYears]_vars

YearsReturned == pc = "returned" /\ ~IsNone(gs.years)

StrategyOrders ==
    {<<"patterns">>, <<"patterns", "generate">>, <<"patterns", "generate", "last_resort">>}

\* The strategies are tried in the fixed order, the backend is called only
\* when no pattern matched and the last-resort patterns only after the call
\* raised
StrategiesInOrder ==
    /\ gs.tried \in StrategyOrders \cup {<<>>}
    /\ YearsReturned =>
          /\ gs.tried = <<"patterns">>
                <=> ~IsNone(FirstNumber(experience_patterns, 1, Val(job.description)))
          /\ gs.tried = <<"patterns">>
                => Val(gs.years)
                      = JsonInt(Val(FirstNumber(experience_patterns, 1, Val(job.description))))
          /\ gs.tried = <<"patterns", "generate", "last_resort">> <=>
                (/\ IsNone(FirstNumber(experience_patterns, 1, Val(job.description)))
                 /\ ~llm.experience.ok)

\* C27: experience-years extraction tries the rule-based patterns first and,
\* when one matches, returns its number without calling the backend; it calls
\* the backend only when no pattern matched, tries the last-resort patterns
\* only after that call failed, and always ends with an integer or null.
C27_StrategyOrderAndResult ==
    /\ StrategiesInOrder
    /\ YearsReturned => Val(gs.years).type \in {"int", "null"}

\* The order of the strategies by itself
C27_StrategyOrder == StrategiesInOrder

\* The result is an integer or null unless the backend answered with a value
\* of another type, which is returned as it is
C27_ResultIsBackendValue ==
    (YearsReturned /\ Val(gs.years).type \notin {"int", "null"}) =>
        /\ gs.tried = <<"patterns", "generate">>
        /\ llm.experience.ok
        /\ Val(gs.years) = llm.experience.value.years

\* The last-resort patterns found the number after the call raised
C27_LastResortFound ==
    /\ YearsReturned
    /\ gs.tried = <<"patterns", "generate", "last_resort">>
    /\ Val(gs.years).type = "int"

-----------------------------------------------------------------------------
(* Concurrent generate_resume runs on one job entity, each followed from   *)
(* its analysis to its resume content (generator.py:63-74, 107-148).  The  *)
(* runs switch only at awaits of the backend: in analyze_job (its awaits,  *)
(* which touch no shared state, are taken as one) and in _generate_summary *)
(* (generator.py:246).  match_profile_to_job awaits no backend, so the     *)
(* assignment of job.analysis, the matching and the reads of               *)
(* _generate_summary (generator.py:210-211) are one step.                  *)

SharedProfiles ==
    {[p EXCEPT !.experiences = e] :
        p \in {q \in Profiles : /\ q.skills = <<>> /\ q.education = <<>>
                                 /\ q.experiences = <<>>},
        e \in {<<>>, <<ProfileExperience("Acme", "Senior Python Developer", "2018-01",
                                         Some("2021-01"), NoneVal,
                                         <<"Cut load time by 40%">>, <<"SQL">>)>>}}

NewResumeRun ==
    [pc |-> "start", matched_from |-> NoneVal, match |-> NoneVal, at_call |-> NoneVal,
     summary_from |-> NoneVal, rewrite_from |-> NoneVal, summary |-> NoneVal]

InitShared ==
    /\ profile \in SharedProfiles
    /\ job \in {j \in NewJobs :
                  /\ j.title \in {"Data Analyst", "Senior Data Engineer"}
                  /\ j.description \in {Some("We are hiring."),
                        Some("Python and SQL developer, 5+ years of experience. Bachelor's degree required. Agile team.")}}
    /\ llm \in [Runs -> ResumeBackends]
    /\ match = NoneVal
    /\ content = NoneVal
    /\ pc = "shared"
    /\ clock = 1
    /\ fit = Idle
    /\ gs = [kind |-> "shared", run |-> [r \in Runs |-> NewResumeRun], writers |-> <<>>]

\* The profile whose skills and job level _generate_summary puts into its
\* prompt: it reads job.analysis before it awaits the backend
SummaryProfile_late(at_call, at_return) == at_return

SummaryProfile(at_call, at_return) == at_call

\* generator.py:68-136 with job.analysis present: the matching reads it, then
\* _generate_summary reads it and awaits the backend
MatchAndAskSummary(run, analysis, result) ==
    IF result.ok
    THEN [run EXCEPT !.pc = "summary_call", !.matched_from = analysis,
                     !.match = Some(result), !.at_call = analysis]
    ELSE [run EXCEPT !.pc = "raised", !.matched_from = analysis, !.match = Some(result)]

\* The run goes on with the profile analysis: job.analysis is assigned when
\* the run's own analyze_job returned it (wrote), then the matching and the
\* backend call of the summary follow
Proceed(r, analysis, wrote) ==
    /\ job' = [job EXCEPT !.analysis = Some(analysis)]
    /\ gs' = [gs EXCEPT !.run[r] = MatchAndAskSummary(@, Some(analysis),
                                                      MatchAnalysed(profile, analysis, clock)),
                        !.writers = IF wrote THEN Append(@, r) ELSE @]
    /\ clock' = IF wrote THEN clock + 1 ELSE clock

\* generator.py:64-68.  A run that starts with job.analysis absent awaits
\* analyze_job; when that returns, or when the run starts with job.analysis
\* present, the run goes on to the matching.
AnalyseAndMatch(r) ==
    /\ gs.run[r].pc \in {"start", "analysing"}
    /\ IF gs.run[r].pc = "start" /\ IsNone(job.analysis)
       THEN /\ gs' = [gs EXCEPT !.run[r].pc = "analysing"]
            /\ UNCHANGED <<job, clock>>
       ELSE Proceed(r, IF gs.run[r].pc = "analysing" THEN analyze_job(job, llm[r], clock)
                       ELSE Val(job.analysis),
                    gs.run[r].pc = "analysing")
    /\ UNCHANGED <<profile, llm, match, content, pc, fit>>

\* The backend call of the summary completes: the skills section is built
\* from the match result, and the experience section calls
\* _tailor_achievements, which reads job.analysis (generator.py:385) if it
\* gets as far as that
SummaryReturns(r) ==
    LET run == gs.run[r]
        result == Val(run.match).value
        section == _generate_experience_section(profile, job, result)
        rewrites == /\ profile.experiences # <<>>
                    /\ _tailor_achievements(profile.experiences[1], job, result).ok
    IN  /\ run.pc = "summary_call"
        /\ gs' = [gs EXCEPT !.run[r] =
                     [run EXCEPT !.pc = IF section.ok THEN "content" ELSE "raised",
                                 !.summary_from = SummaryProfile(run.at_call, job.analysis),
                                 !.summary = Some(_generate_summary(profile, job, result,
                                                                    llm[r].summary)),
                                 !.rewrite_from = IF rewrites THEN job.analysis ELSE NoneVal]]
        /\ UNCHANGED <<profile, job, llm, match, content, pc, clock, fit>>

NextShared == \E r \in Runs : AnalyseAndMatch(r) \/ SummaryReturns(r)

SpecShared == InitShared /\ [][NextShared]_vars

C28_RewriteNeverReads == \A r \in Runs : IsNone(gs.run[r].rewrite_from)

-----------------------------------------------------------------------------
(* The scores match_profile_to_job reports: matcher.py:52-68 applied to    *)
(* the results of the three matchers                                       *)

MaxRequirements == 21

\* Job skill lists of one, two and MaxRequirements skills; only their length
\* enters the score
RequirementLists ==
    {[k \in 1..n |-> [name |-> "skill", relevance |-> 8]] : n \in {1, 2, MaxRequirements}}

\* relevance_score of a partial match: round(match_score * (relevance / 10), 2)
PartialRelevances == {Rat(16, 100), Rat(33, 100), Rat(60, 100), Rat(70, 100), RInt(1)}

\* m matched skills: exact matches at relevance 8 and one partial match
SkillMatchLists ==
    {[k \in 1..m |-> [relevance_score |-> IF k < m THEN Rat(8, 10) ELSE last]] :
        m \in 0..4, last \in PartialRelevances}

\* experience_match["score"], a value rounded to 2 decimals in 0..1
ExperienceMatchScores == {Rat(e, 100) : e \in 0..100}

\* education_match["score"]: 0.8 without job requirements, 0 without
\* candidate education
EducationMatchScores == {RInt(0), Rat(8, 10)}

InitReport ==
    /\ profile = Idle
    /\ job = Idle
    /\ llm = Idle
    /\ match = NoneVal
    /\ content = NoneVal
    /\ pc = "matchers"
    /\ clock = 1
    /\ fit \in [kind : {"matchers"},
                job_skills : RequirementLists,
                skill_matches : SkillMatchLists,
                experience_match : [score : ExperienceMatchScores],
                education_match : [score : EducationMatchScores]]
    /\ Len(fit.skill_matches) <= Len(fit.job_skills)
    /\ gs = Idle

\* matcher.py:52-68: the scores, the category and the returned dictionary
ReportMatch ==
    /\ pc = "matchers"
    /\ LET skill_score == SkillScore(fit.skill_matches, fit.job_skills)
           experience_score == RMul(fit.experience_match.score, RInt(100))
           education_score == RMul(fit.education_match.score, RInt(100))
           overall_score == OverallScore(skill_score, experience_score, education_score)
           fit_category == _determine_fit_category(overall_score)
       IN  fit' = [kind |-> "reported",
                   job_skills |-> fit.job_skills,
                   overall_score |-> overall_score,
                   overall_match |-> Round2(overall_score),
                   fit_category |-> fit_category,
                   skill_match |-> [score |-> Round2(skill_score)]]
    /\ pc' = "reported"
    /\ UNCHANGED <<profile, job, llm, match, content, clock, gs>>

NextReport == ReportMatch

SpecReport == InitReport /\ [][NextReport]_vars

Reported == pc = "reported" /\ fit.kind = "reported"

\* C29: the reported fit_category is the category of the reported
\* overall_match under the thresholds 85/70/50: a result whose overall_match
\* is at least a threshold has at least that threshold's category.
C29_CategoryAgreesWithReportedScore ==
    Reported => fit.fit_category = _determine_fit_category(fit.overall_match)

\* The reported category is the category of the unrounded overall_score, and
\* the two disagree only when rounding lifted the score onto a threshold
C29_CategoryOfUnroundedScore ==
    Reported =>
        /\ fit.fit_category = _determine_fit_category(fit.overall_score)
        /\ fit.fit_category # _determine_fit_category(fit.overall_match)
              => /\ fit.overall_match \in {RInt(50), RInt(70), RInt(85)}
                 /\ RLt(fit.overall_score, fit.overall_match)

\* 21 job skills, an overall_score of 10499/210 = 49.9952..: reported as
\* overall_match 50.0 with fit_category "poor"
C29_FiftyReportedPoor ==
    /\ Reported
    /\ Len(fit.job_skills) = MaxRequirements
    /\ fit.overall_match = RInt(50)
    /\ fit.fit_category = "poor"

\* With one or two job skills the two agree
C29_AgreeOnShortLists ==
    (Reported /\ Len(fit.job_skills) <= 2)
        => fit.fit_category = _determine_fit_category(fit.overall_match)

-----------------------------------------------------------------------------
(* IndeedScraper.search_jobs (indeed.py:143-377): the pagination loop, the *)
(* attempts of one page request and the end of the call                    *)

MaxResults == 2
MaxRetryCount == 2
MaxPageResults == 2
MaxPageRequests == 3

\* One entry of jobSearch.results: it yields a JobPost, has no job key
\* (indeed.py:282-283), or raises while it is processed (indeed.py:359-360)
ResultKinds == {"usable", "no_key", "raises"}

\* The outcomes of one session.post (indeed.py:234-262)
PageResponses ==
    {[kind |-> "ok", results |-> rs, nextCursor |-> c] :
        rs \in SeqsUpTo(ResultKinds, MaxPageResults), c \in {NoneVal, Some("cursor")}}
    \cup {[kind |-> "rate_limited"], [kind |-> "status"], [kind |-> "timeout"],
          [kind |-> "client_error"], [kind |-> "bad_json"]}

\* The for loop over job_results (indeed.py:272-360)
RECURSIVE ProcessResults(_, _, _)
ProcessResults(jobs, job_results, max_results) ==
    IF job_results = <<>> THEN jobs
    ELSE IF Len(jobs) >= max_results THEN jobs
    ELSE ProcessResults(IF Head(job_results) = "usable" THEN Append(jobs, "in-key")
                        ELSE jobs,
                        Tail(job_results), max_results)

InitSearch ==
    /\ profile = Idle
    /\ job = Idle
    /\ llm = Idle
    /\ match = NoneVal
    /\ content = NoneVal
    /\ pc = "while"
    /\ clock = 1
    /\ fit = Idle
    /\ gs \in [kind : {"search"},
               max_results : 0..MaxResults,
               retry_count : 0..MaxRetryCount,
               jobs : {<<>>},
               cursor : {NoneVal},
               attempt : {0},
               attempts : {0},
               page_requests : {0},
               result : {NoneVal}]

\* return jobs[:max_results] (indeed.py:377)
ReturnJobs(jobs) ==
    /\ pc' = "returned"
    /\ gs' = [gs EXCEPT !.jobs = jobs, !.result = Some(Ok(Take(jobs, gs.max_results)))]

\* raise ScraperError (indeed.py:250, 256, 262, 370-375)
RaiseScraperError ==
    /\ pc' = "raised"
    /\ gs' = [gs EXCEPT !.result = Some(Raise("ScraperError"))]

\* The test of the while loop (indeed.py:211) and the entry of the for loop
\* over the attempts (indeed.py:232). With retry_count 0 the for loop has no
\* pass and data is unbound at indeed.py:265: the UnboundLocalError becomes a
\* ScraperError at indeed.py:373-375. page_requests counts up to
\* MaxPageRequests and stays there.
WhileTest ==
    /\ pc = "while"
    /\ IF Len(gs.jobs) < gs.max_results
       THEN IF gs.retry_count <= 0
            THEN RaiseScraperError
            ELSE /\ pc' = "attempt"
                 /\ gs' = [gs EXCEPT !.attempt = 0, !.attempts = 0,
                                     !.page_requests = MinInt(@ + 1, MaxPageRequests)]
       ELSE ReturnJobs(gs.jobs)
    /\ UNCHANGED <<profile, job, llm, match, content, clock, fit>>

\* One pass of the for loop (indeed.py:232-262) and, after a 200, the rest
\* of the while body (indeed.py:264-368)
Attempt(response) ==
    /\ pc = "attempt"
    /\ LET made == [gs EXCEPT !.attempts = @ + 1]
       IN  IF response.kind = "ok"
           THEN LET jobs == ProcessResults(gs.jobs, response.results, gs.max_results)
                IN  IF response.results = <<>> \/ IsNone(response.nextCursor)
                    THEN /\ pc' = "returned"
                         /\ gs' = [made EXCEPT
                                     !.jobs = IF response.results = <<>> THEN @ ELSE jobs,
                                     !.cursor = IF response.results = <<>> THEN @
                                                ELSE response.nextCursor,
                                     !.result =
                                        Some(Ok(Take(IF response.results = <<>> THEN gs.jobs
                                                     ELSE jobs,
                                                     gs.max_results)))]
                    ELSE /\ pc' = "while"
                         /\ gs' = [made EXCEPT !.jobs = jobs, !.cursor = response.nextCursor]
           ELSE IF response.kind \in {"rate_limited", "status", "timeout"}
                   /\ gs.attempt < gs.retry_count - 1
           THEN /\ pc' = "attempt"
                /\ gs' = [made EXCEPT !.attempt = @ + 1]
           ELSE /\ pc' = "raised"
                /\ gs' = [made EXCEPT !.result = Some(Raise("ScraperError"))]
    /\ UNCHANGED <<profile, job, llm, match, content, clock, fit>>

NextSearch == WhileTest \/ \E response \in PageResponses : Attempt(response)

\* The event loop runs the call as long as it has a step to take
SpecSearch == InitSearch /\ [][NextSearch]_vars /\ WF_vars(NextSearch)

SearchEnded == pc \in {"returned", "raised"}

\* C30: search_jobs always terminates: whatever the server answers, the
\* pagination loop ends after finitely many page requests, each page request
\* makes at most retry_count attempts, and the call ends by returning at most
\* max_results jobs or raising ScraperError.
C30_SearchJobsTerminates ==
    /\ <>SearchEnded
    /\ [](gs.attempts <= gs.retry_count)
    /\ [](SearchEnded =>
            \/ Val(gs.result).ok /\ Len(Val(gs.result).value) <= gs.max_results
            \/ ~Val(gs.result).ok /\ Val(gs.result).error = "ScraperError")

\* Each page request makes at most retry_count attempts
C30_AttemptsWithinRetryCount == gs.attempts <= gs.retry_count

\* A call that ends returns at most max_results jobs or raises ScraperError
C30_EndsAsClaimed ==
    SearchEnded =>
        \/ Val(gs.result).ok /\ Len(Val(gs.result).value) <= gs.max_results
        \/ ~Val(gs.result).ok /\ Val(gs.result).error = "ScraperError"

\* MaxPageRequests page requests were made, none of the answers held a usable
\* result, and the loop is at its test again with a cursor
C30_PagesWithoutJobs ==
    /\ pc = "while"
    /\ gs.page_requests = MaxPageRequests
    /\ gs.jobs = <<>>
    /\ ~IsNone(gs.cursor)
    /\ gs.max_results > 0

\* Every page that sends the loop back to its test carried a cursor, and the
\* loop goes on from there while fewer than max_results jobs are collected
C30_LoopsWhileShort ==
    [][(pc = "while" /\ pc' = "attempt") => Len(gs.jobs) < gs.max_results]_vars

====
